---- MODULE Spec2Model ----
(***************************************************************************)
(* A model of react-video-timeline: the frame-extraction hook and the      *)
(* VideoFrameExtractor it drives, the drag-interaction hook, the pure time *)
(* geometry, and the remount of the widget on a videoSrc change.           *)
(*                                                                         *)
(* Times are integers in milliseconds (0.01 s = 10, 0.1 s = 100); a value  *)
(* that the code computes as a real number is kept exact as a fraction     *)
(* <<numerator, denominator>>.  IEEE rounding error is not modelled.       *)
(* null / undefined is the string "none".                                  *)
(***************************************************************************)
EXTENDS Integers, Sequences, FiniteSets, TLC

VARIABLES
  \* ---- props and state of the drag-interaction hook
  propDuration,         \* props.duration in ms, 0 when not passed
  videoDuration,        \* useFrameExtractor: videoDuration state
  minDuration,          \* props.minDuration
  disabled,             \* props.disabled
  showTimeScale,        \* props.showTimeScale
  width,                \* canvas.offsetWidth (props.width)
  currentTimeProp,      \* props.currentTime: [given, value]
  selectedRange,        \* the range the hooks see: [start, end]
  internalCurrentTime,  \* VideoTimelineInner: internalCurrentTime state
  dragTypeRef,          \* useDragInteraction: dragTypeRef.current
  isDragging,           \* useDragInteraction: isDragging state
  dragType,             \* useDragInteraction: dragType state
  emitted,              \* onDragStart / onDragEnd / onTimeChange /
                        \* onRangeChange calls of the last step, in order
  lastCall,             \* the last call of the host or the pointer, and
                        \* its hit-test result
  \* ---- the widget: VideoTimeline, VideoTimelineInner, useFrameExtractor
  videoSrc,             \* props.videoSrc
  frameInterval,        \* props.frameInterval
  mounted,              \* whether a VideoTimelineInner instance is mounted
  inst,                 \* the number of the mounted instance (one per key)
  abortRef,             \* useFrameExtractor: abortRef.current, per instance
  exts,                 \* every VideoFrameExtractor created, with its extraction
  extractorRef,         \* useFrameExtractor: extractorRef.current (0: null)
  frames,               \* useFrameExtractor: frames state
  framesBy,             \* the extraction whose result frames holds (0: none)
  loading,              \* useFrameExtractor: loading state
  progress,             \* useFrameExtractor: progress state, a fraction
  error,                \* useFrameExtractor: error state
  frameImages,          \* TimelineRenderer.frameImages of the mounted renderer
  loadingImages,        \* the image loads its render calls are awaiting
  \* ---- the pure functions applied to drawn inputs
  pIn,
  pOut,
  \* ---- the canvas element
  cursorStyle,          \* canvas.style.cursor
  \* ---- one VideoFrameExtractor called directly
  sampler,
  \* ---- one TimelineRenderer called directly
  renderer

dragVars == <<propDuration, videoDuration, minDuration, disabled, showTimeScale,
              width, currentTimeProp, selectedRange, internalCurrentTime, dragTypeRef,
              isDragging, dragType, emitted, lastCall>>
extractVars == <<videoSrc, frameInterval, mounted, inst, abortRef, exts,
                 extractorRef, frames, framesBy, loading, progress, error,
                 frameImages, loadingImages>>
pureVars == <<pIn, pOut>>
canvasVars == <<cursorStyle>>
samplerVars == <<sampler>>
rendererVars == <<renderer>>
\* what the hooks and the widget leave alone
restVars == <<pureVars, canvasVars, samplerVars, rendererVars>>
vars == <<dragVars, extractVars, restVars>>

(***************************************************************************)
(* Program constants (video-timeline.tsx), pixels and milliseconds.        *)
(***************************************************************************)
DEFAULT_SCALE_HEIGHT == 27
DEFAULT_HANDLE_WIDTH == 16
DEFAULT_FRAME_HEIGHT == 50
DEFAULT_MIN_DURATION == 100
DEFAULT_FRAME_INTERVAL == 200
FALLBACK_DURATION == 10000

(***************************************************************************)
(* Bounds of the model.                                                    *)
(***************************************************************************)
\* pointer y positions run from -1 to MaxPointerY
MaxPointerY == 78
\* round trips are taken for every t of every duration up to MaxSmallDuration
MaxSmallDuration == 40
\* generateTimePoints is applied to every duration up to MaxGenDuration ms
MaxGenDuration == 250
\* and to the inputs that make the loop run at most MaxPoints times
MaxPoints == 60
\* at most MaxExtractions extractFrames calls and MaxMounts instances in a run
MaxExtractions == 2
MaxMounts == 2
\* calls made on one VideoFrameExtractor
MaxCalls == 3
\* render calls made on one TimelineRenderer
MaxRenders == 3

Min(a, b) == IF a <= b THEN a ELSE b
Max(a, b) == IF a >= b THEN a ELSE b

(***************************************************************************)
(* time-format.ts: roundToDecimals.  value = n/d milliseconds, n >= 0,     *)
(* decimals in 0..3.  Math.round(value_s * factor) / factor with           *)
(* Math.round rounding half up; in milliseconds, with unit = 1000/factor,  *)
(* that is unit * floor(value / unit + 1/2).                               *)
(***************************************************************************)
Pow10(k) == IF k = 0 THEN 1 ELSE IF k = 1 THEN 10 ELSE IF k = 2 THEN 100 ELSE 1000

roundToDecimals(n, d, decimals) ==
  LET factor == Pow10(decimals)
      unit   == 1000 \div factor
  IN  unit * ((2 * n + unit * d) \div (2 * unit * d))

\* VideoTimelineInner: scaleHeight, handleWidth, frameHeight, duration
scaleHeight == IF showTimeScale THEN DEFAULT_SCALE_HEIGHT ELSE 0
handleWidth == DEFAULT_HANDLE_WIDTH
frameHeight == DEFAULT_FRAME_HEIGHT
duration ==
  IF propDuration # 0 THEN propDuration
  ELSE IF videoDuration # 0 THEN videoDuration ELSE FALLBACK_DURATION

(***************************************************************************)
(* handleWidth + (t / duration) * effectiveWidth, the pixel of a time, as  *)
(* the fraction <<numerator, denominator>>.                                *)
(***************************************************************************)
timeToPixel(t, w, dur) ==
  LET effectiveWidth == w - handleWidth * 2
  IN  <<handleWidth * dur + t * effectiveWidth, dur>>

(***************************************************************************)
(* use-drag-interaction.ts: pixelToTime, for the pixel x = xn/xd relative  *)
(* to the canvas's left edge.                                              *)
(***************************************************************************)
\* a faulty variant of pixelToTimeOf: the result rounded to one decimal
pixelToTimeOneDecimal(xn, xd, w, dur) ==
  IF dur <= 0 THEN 0
  ELSE
    LET effectiveWidth == w - handleWidth * 2
        tn == (xn - handleWidth * xd) * dur
        td == xd * effectiveWidth
        cn == IF tn >= dur * td THEN dur * td ELSE IF tn <= 0 THEN 0 ELSE tn
    IN  roundToDecimals(cn, td, 1)

\* a faulty variant of pixelToTimeOf: the time is not clamped to [0, duration]
pixelToTimeUnclamped(xn, xd, w, dur) ==
  IF dur <= 0 THEN 0
  ELSE
    LET effectiveWidth == w - handleWidth * 2
        tn == (xn - handleWidth * xd) * dur
        td == xd * effectiveWidth
    IN  roundToDecimals(tn, td, 2)

pixelToTimeOf(xn, xd, w, dur) ==
  IF dur <= 0 THEN 0
  ELSE
    LET effectiveWidth == w - handleWidth * 2
        tn == (xn - handleWidth * xd) * dur
        td == xd * effectiveWidth
        \* Math.max(0, Math.min(duration, time))
        cn == IF tn >= dur * td THEN dur * td ELSE IF tn <= 0 THEN 0 ELSE tn
    IN  roundToDecimals(cn, td, 2)

pixelToTime(x) == pixelToTimeOf(x, 1, width, duration)

(***************************************************************************)
(* frame-extractor: generateTimePoints.  The loop pushes 0, interval, ...  *)
(* while t < duration; then duration - 0.01 when the last point is more    *)
(* than 0.1 s before the end.                                              *)
(***************************************************************************)
RECURSIVE loopPoints(_, _, _)
loopPoints(t, dur, interval) ==
  IF t < dur THEN <<t>> \o loopPoints(t + interval, dur, interval) ELSE <<>>

\* a faulty variant of generateTimePoints: the loop alone, no closing point
generateTimePointsLoopOnly(dur, interval) == loopPoints(0, dur, interval)

generateTimePoints(dur, interval) ==
  LET points == loopPoints(0, dur, interval)
  IN  IF Len(points) > 0 /\ points[Len(points)] < dur - 100
      THEN Append(points, dur - 10)
      ELSE points

(***************************************************************************)
(* use-drag-interaction.ts: detectHitArea(x, y), x and y relative to the   *)
(* canvas.  startX and endX are fractions over duration, so the            *)
(* comparisons are made after multiplying by duration (> 0).               *)
(***************************************************************************)
\* a faulty variant of detectHitArea: the end handle is tested before the
\* start handle
detectHitAreaEndFirst(x, y) ==
  IF y < scaleHeight \/ y > scaleHeight + frameHeight
  THEN IF y >= 0 /\ y < scaleHeight THEN "cursor" ELSE "none"
  ELSE
    LET effectiveWidth == width - handleWidth * 2
        startXn == handleWidth * duration + selectedRange.start * effectiveWidth
        endXn   == handleWidth * duration + selectedRange.end * effectiveWidth
        xs      == x * duration
        hw      == handleWidth * duration
    IN  IF xs >= endXn /\ xs <= endXn + hw THEN "end"
        ELSE IF xs >= startXn - hw /\ xs <= startXn THEN "start"
        ELSE "cursor"

\* a faulty variant of detectHitArea: each handle reaches handleWidth pixels
\* to both sides of its edge
detectHitAreaBothSides(x, y) ==
  IF y < scaleHeight \/ y > scaleHeight + frameHeight
  THEN IF y >= 0 /\ y < scaleHeight THEN "cursor" ELSE "none"
  ELSE
    LET effectiveWidth == width - handleWidth * 2
        startXn == handleWidth * duration + selectedRange.start * effectiveWidth
        endXn   == handleWidth * duration + selectedRange.end * effectiveWidth
        xs      == x * duration
        hw      == handleWidth * duration
    IN  IF xs >= startXn - hw /\ xs <= startXn + hw THEN "start"
        ELSE IF xs >= endXn - hw /\ xs <= endXn + hw THEN "end"
        ELSE "cursor"

detectHitArea(x, y) ==
  IF y < scaleHeight \/ y > scaleHeight + frameHeight
  THEN IF y >= 0 /\ y < scaleHeight THEN "cursor" ELSE "none"
  ELSE
    LET effectiveWidth == width - handleWidth * 2
        startXn == handleWidth * duration + selectedRange.start * effectiveWidth
        endXn   == handleWidth * duration + selectedRange.end * effectiveWidth
        xs      == x * duration
        hw      == handleWidth * duration
    IN  IF xs >= startXn - hw /\ xs <= startXn THEN "start"
        ELSE IF xs >= endXn /\ xs <= endXn + hw THEN "end"
        ELSE IF xs >= startXn /\ xs <= endXn THEN "cursor"
        ELSE "cursor"


(***************************************************************************)
(* The drag-interaction hook.  Events are tuples: <<"dragStart", kind>>,   *)
(* <<"dragEnd", kind>>, <<"timeChange", t>>, <<"rangeChange", start, end>>.*)
(* startXRef, startRangeRef and startTimeRef are written by handleStart    *)
(* and read nowhere; they are left out.                                    *)
(***************************************************************************)
propVars == <<propDuration, videoDuration, minDuration, disabled,
              showTimeScale, width, currentTimeProp>>

Call(op, hit) == [op |-> op, hit |-> hit]

\* a faulty variant of clampedStart: newStart is not clamped to 0
clampedStartNoFloor(time) == Min(time, selectedRange.end - minDuration)

\* a faulty variant of clampedEnd: newEnd is not clamped to duration
clampedEndNoCeiling(time) == Max(time, selectedRange.start + minDuration)

\* a faulty variant of clampedEnd: newEnd may come down to the start
clampedEndNoMinDuration(time) == Min(duration, Max(time, selectedRange.start))

\* handleMove, case 'start': newStart, clampedStart
clampedStart(time) ==
  LET newStart == Min(time, selectedRange.end - minDuration)
  IN  Max(0, newStart)

\* handleMove, case 'end': newEnd, clampedEnd
clampedEnd(time) ==
  LET newEnd == Max(time, selectedRange.start + minDuration)
  IN  Min(duration, newEnd)

\* a faulty variant of handleStart: onTimeChange gets the pointer's time for
\* the handles too
handleStartSnapsToPointer(op, x, y) ==
  LET hitArea == detectHitArea(x, y)
      time    == pixelToTime(x)
  IN  IF disabled
      THEN /\ lastCall' = Call(op, "disabled")
           /\ emitted' = <<>>
           /\ UNCHANGED <<dragTypeRef, isDragging, dragType,
                          internalCurrentTime, selectedRange>>
      ELSE IF hitArea = "none" \/ hitArea = "track"
      THEN /\ lastCall' = Call(op, hitArea)
           /\ emitted' = <<>>
           /\ UNCHANGED <<dragTypeRef, isDragging, dragType,
                          internalCurrentTime, selectedRange>>
      ELSE /\ lastCall' = Call(op, hitArea)
           /\ dragTypeRef' = hitArea
           /\ isDragging' = TRUE
           /\ dragType' = hitArea
           /\ emitted' = <<<<"dragStart", hitArea>>, <<"timeChange", time>>>>
           /\ internalCurrentTime' = time
           /\ UNCHANGED selectedRange

\* a faulty variant of handleStart: `disabled` is not looked at
handleStartWhenDisabled(op, x, y) ==
  LET hitArea == detectHitArea(x, y)
      time    == pixelToTime(x)
  IN  IF hitArea = "none" \/ hitArea = "track"
      THEN /\ lastCall' = Call(op, hitArea)
           /\ emitted' = <<>>
           /\ UNCHANGED <<dragTypeRef, isDragging, dragType,
                          internalCurrentTime, selectedRange>>
      ELSE LET t == IF hitArea = "cursor" THEN time
                    ELSE IF hitArea = "start" THEN selectedRange.start
                    ELSE selectedRange.end
           IN  /\ lastCall' = Call(op, hitArea)
               /\ dragTypeRef' = hitArea
               /\ isDragging' = TRUE
               /\ dragType' = hitArea
               /\ emitted' = <<<<"dragStart", hitArea>>, <<"timeChange", t>>>>
               /\ internalCurrentTime' = t
               /\ UNCHANGED selectedRange

handleStart(op, x, y) ==
  LET hitArea == detectHitArea(x, y)
      time    == pixelToTime(x)
  IN  IF disabled
      THEN /\ lastCall' = Call(op, "disabled")
           /\ emitted' = <<>>
           /\ UNCHANGED <<dragTypeRef, isDragging, dragType,
                          internalCurrentTime, selectedRange>>
      ELSE IF hitArea = "none" \/ hitArea = "track"
      THEN /\ lastCall' = Call(op, hitArea)
           /\ emitted' = <<>>
           /\ UNCHANGED <<dragTypeRef, isDragging, dragType,
                          internalCurrentTime, selectedRange>>
      ELSE LET t == IF hitArea = "cursor" THEN time
                    ELSE IF hitArea = "start" THEN selectedRange.start
                    ELSE selectedRange.end
           IN  /\ lastCall' = Call(op, hitArea)
               /\ dragTypeRef' = hitArea
               /\ isDragging' = TRUE
               /\ dragType' = hitArea
               /\ emitted' = <<<<"dragStart", hitArea>>, <<"timeChange", t>>>>
               /\ internalCurrentTime' = t
               /\ UNCHANGED selectedRange

\* a faulty variant of handleMove: a cursor drag calls onTimeChange only when
\* the time has changed
handleMoveCursorOnChange(op, x) ==
  LET time == pixelToTime(x)
  IN  /\ lastCall' = Call(op, "none")
      /\ UNCHANGED <<dragTypeRef, isDragging, dragType>>
      /\ CASE dragTypeRef = "cursor" ->
                IF time # internalCurrentTime
                THEN /\ emitted' = <<<<"timeChange", time>>>>
                     /\ internalCurrentTime' = time
                     /\ UNCHANGED selectedRange
                ELSE /\ emitted' = <<>>
                     /\ UNCHANGED <<selectedRange, internalCurrentTime>>
           [] dragTypeRef = "start" ->
                IF clampedStart(time) # selectedRange.start
                THEN /\ selectedRange' =
                          [start |-> clampedStart(time), end |-> selectedRange.end]
                     /\ emitted' =
                          << <<"rangeChange", clampedStart(time), selectedRange.end>>,
                             <<"timeChange", clampedStart(time)>> >>
                     /\ internalCurrentTime' = clampedStart(time)
                ELSE /\ emitted' = <<>>
                     /\ UNCHANGED <<selectedRange, internalCurrentTime>>
           [] dragTypeRef = "end" ->
                IF clampedEnd(time) # selectedRange.end
                THEN /\ selectedRange' =
                          [start |-> selectedRange.start, end |-> clampedEnd(time)]
                     /\ emitted' =
                          << <<"rangeChange", selectedRange.start, clampedEnd(time)>>,
                             <<"timeChange", clampedEnd(time)>> >>
                     /\ internalCurrentTime' = clampedEnd(time)
                ELSE /\ emitted' = <<>>
                     /\ UNCHANGED <<selectedRange, internalCurrentTime>>
           [] OTHER ->
                /\ emitted' = <<>>
                /\ UNCHANGED <<selectedRange, internalCurrentTime>>

handleMove(op, x) ==
  LET time == pixelToTime(x)
  IN  /\ lastCall' = Call(op, "none")
      /\ UNCHANGED <<dragTypeRef, isDragging, dragType>>
      /\ CASE dragTypeRef = "cursor" ->
                /\ emitted' = <<<<"timeChange", time>>>>
                /\ internalCurrentTime' = time
                /\ UNCHANGED selectedRange
           [] dragTypeRef = "start" ->
                IF clampedStart(time) # selectedRange.start
                THEN /\ selectedRange' =
                          [start |-> clampedStart(time), end |-> selectedRange.end]
                     /\ emitted' =
                          << <<"rangeChange", clampedStart(time), selectedRange.end>>,
                             <<"timeChange", clampedStart(time)>> >>
                     /\ internalCurrentTime' = clampedStart(time)
                ELSE /\ emitted' = <<>>
                     /\ UNCHANGED <<selectedRange, internalCurrentTime>>
           [] dragTypeRef = "end" ->
                IF clampedEnd(time) # selectedRange.end
                THEN /\ selectedRange' =
                          [start |-> selectedRange.start, end |-> clampedEnd(time)]
                     /\ emitted' =
                          << <<"rangeChange", selectedRange.start, clampedEnd(time)>>,
                             <<"timeChange", clampedEnd(time)>> >>
                     /\ internalCurrentTime' = clampedEnd(time)
                ELSE /\ emitted' = <<>>
                     /\ UNCHANGED <<selectedRange, internalCurrentTime>>
           [] OTHER ->
                /\ emitted' = <<>>
                /\ UNCHANGED <<selectedRange, internalCurrentTime>>

\* a faulty variant of handleEnd: onDragEnd is called whatever dragTypeRef is
handleEndAlwaysEmits(op) ==
  /\ lastCall' = Call(op, "none")
  /\ emitted' = <<<<"dragEnd", dragTypeRef>>>>
  /\ dragTypeRef' = "none"
  /\ isDragging' = FALSE
  /\ dragType' = "none"
  /\ UNCHANGED <<selectedRange, internalCurrentTime>>

handleEnd(op) ==
  /\ lastCall' = Call(op, "none")
  /\ emitted' = IF dragTypeRef # "none" THEN <<<<"dragEnd", dragTypeRef>>>> ELSE <<>>
  /\ dragTypeRef' = "none"
  /\ isDragging' = FALSE
  /\ dragType' = "none"
  /\ UNCHANGED <<selectedRange, internalCurrentTime>>

\* the listeners bound by the event-binding effect
handleMouseDown(x, y) ==
  /\ mounted
  /\ handleStart("mousedown", x, y)
  /\ UNCHANGED <<propVars, extractVars, restVars>>

handleMouseMove(x) ==
  /\ mounted
  /\ handleMove("mousemove", x)
  /\ UNCHANGED <<propVars, extractVars, restVars>>

handleMouseUp ==
  /\ mounted
  /\ handleEnd("mouseup")
  /\ UNCHANGED <<propVars, extractVars, restVars>>

\* VideoTimelineRef.setSelectedRange
setSelectedRange(range) ==
  /\ mounted
  /\ lastCall' = Call("setSelectedRange", "none")
  /\ selectedRange' = range
  /\ emitted' = <<<<"rangeChange", range.start, range.end>>>>
  /\ UNCHANGED <<dragTypeRef, isDragging, dragType, internalCurrentTime,
                 propVars, extractVars, restVars>>

\* a render of the host that passes the same props, but for onRangeChange
\* when newOnRangeChange: a new function then, as an inline arrow function
\* is.  Neither selectedRange nor defaultSelectedRange is passed.  The
\* initial-range effect has onRangeChange among its dependencies and runs
\* again when it changes.
hostRerender(newOnRangeChange) ==
  /\ mounted
  /\ lastCall' = Call("rerender", IF newOnRangeChange THEN "onRangeChange"
                                  ELSE "none")
  /\ IF newOnRangeChange /\ videoDuration > 0
     THEN /\ selectedRange' = [start |-> 0, end |-> videoDuration]
          /\ emitted' = <<<<"rangeChange", 0, videoDuration>>>>
     ELSE /\ emitted' = <<>>
          /\ UNCHANGED selectedRange
  /\ UNCHANGED <<dragTypeRef, isDragging, dragType, internalCurrentTime,
                 propVars, extractVars, restVars>>

\* a render of the host that passes disabled = v and otherwise the same
\* props.  handleStart is made anew (disabled is among its dependencies) and
\* the event-binding effect binds the listeners again; handleMove and
\* handleEnd do not read disabled, and dragTypeRef is a ref that outlives the
\* render.
setDisabled(v) ==
  /\ mounted
  /\ disabled # v
  /\ disabled' = v
  /\ lastCall' = Call("rerender", "disabled")
  /\ emitted' = <<>>
  /\ UNCHANGED <<propDuration, videoDuration, minDuration, showTimeScale,
                 width, currentTimeProp, selectedRange, internalCurrentTime,
                 dragTypeRef, isDragging, dragType, extractVars, restVars>>

\* VideoTimelineRef.setCurrentTime
setCurrentTime(time) ==
  /\ mounted
  /\ lastCall' = Call("setCurrentTime", "none")
  /\ internalCurrentTime' = time
  /\ emitted' = <<<<"timeChange", time>>>>
  /\ UNCHANGED <<dragTypeRef, isDragging, dragType, selectedRange,
                 propVars, extractVars, restVars>>

\* currentTime: propCurrentTime = 0 in the destructuring of props: the
\* default stands in when the prop is not passed, so the value is never
\* undefined
propCurrentTime ==
  [defined |-> TRUE,
   value |-> IF currentTimeProp.given THEN currentTimeProp.value ELSE 0]

\* propCurrentTime !== undefined ? propCurrentTime : internalCurrentTime
currentTime ==
  IF propCurrentTime.defined THEN propCurrentTime.value ELSE internalCurrentTime

\* an event that none of the bound listeners handles, or that the listener
\* handling it returns from at once
ignored(op) ==
  /\ lastCall' = Call(op, "none")
  /\ emitted' = <<>>
  /\ UNCHANGED <<dragTypeRef, isDragging, dragType, internalCurrentTime,
                 selectedRange>>

\* touchstart on the canvas with n touches, the first at (x, y)
handleTouchStart(n, x, y) ==
  /\ mounted
  /\ IF n = 1 THEN handleStart("touchstart", x, y) ELSE ignored("touchstart")
  /\ UNCHANGED <<propVars, extractVars, restVars>>

\* touchmove with n touches, the first at x
handleTouchMove(n, x) ==
  /\ mounted
  /\ IF n = 1 THEN handleMove("touchmove", x) ELSE ignored("touchmove")
  /\ UNCHANGED <<propVars, extractVars, restVars>>

handleTouchEnd ==
  /\ mounted
  /\ handleEnd("touchend")
  /\ UNCHANGED <<propVars, extractVars, restVars>>

\* touchcancel: the event-binding effect adds no listener for it
touchcancel ==
  /\ mounted
  /\ ignored("touchcancel")
  /\ UNCHANGED <<propVars, extractVars, restVars>>

\* the listeners the event-binding effect has on window: added when the
\* effect runs after the mount, whatever the drag state is, and removed by
\* its cleanup, which is followed by a new run unless the widget unmounts
windowListeners ==
  IF mounted THEN {"mousemove", "mouseup", "touchmove", "touchend"} ELSE {}

\* the switch of updateCursor
cursorOf(hitArea) ==
  IF hitArea \in {"start", "end"} THEN "ew-resize"
  ELSE IF hitArea \in {"cursor", "track"} THEN "pointer"
  ELSE "default"

\* mousemove over the canvas at (x, y): updateCursor, which the cursor-style
\* effect binds only when the timeline is not disabled.  The same event then
\* reaches the mousemove listener on window, handleMouseMove.
updateCursor(x, y) ==
  /\ mounted
  /\ lastCall' = Call("hover", detectHitArea(x, y))
  /\ emitted' = <<>>
  /\ cursorStyle' = IF disabled THEN cursorStyle
                    ELSE cursorOf(detectHitArea(x, y))
  /\ UNCHANGED <<dragTypeRef, isDragging, dragType, internalCurrentTime,
                 selectedRange, propVars, extractVars, pureVars, samplerVars,
                 rendererVars>>

(***************************************************************************)
(* Video sources.  A URL string is compared by value; a File is an object, *)
(* compared by identity (id), with a name, a size and a lastModified.      *)
(***************************************************************************)
File(id, name, size, lastModified) ==
  [kind |-> "file", id |-> id, name |-> name, size |-> size,
   lastModified |-> lastModified]
Url(str) ==
  [kind |-> "url", id |-> 0, name |-> str, size |-> 0, lastModified |-> 0]

\* VideoTimeline: videoKey
videoKey(src) ==
  IF src.kind = "file"
  THEN src.name \o "_" \o ToString(src.size) \o "_" \o ToString(src.lastModified)
  ELSE src.name

\* getDuration: this.video.duration once the metadata is loaded, in ms
MediaDuration(src) == IF src.kind = "file" THEN 1000 ELSE 100

(***************************************************************************)
(* A VideoFrameExtractor together with the extractFrames call of the hook  *)
(* that created it.  phase is where that call is suspended:                *)
(*   "getDuration"   awaiting loadVideo inside extractor.getDuration       *)
(*   "loadVideo"     awaiting loadVideo inside extractor.extractFrames     *)
(*   "captureFrame"  awaiting seeked / error for timePoints[i]             *)
(*   "done"          the call of the hook has returned                     *)
(* superseded, inFlight, cbProgress, cbComplete, cbError, late and         *)
(* lateError record history: whether a later extractFrames call or an      *)
(* unmount has happened, whether this call was still running then, the     *)
(* callbacks it has delivered to the caller, and those of them delivered    *)
(* after it was superseded (late: progress and completion; lateError).     *)
(***************************************************************************)
NewExt(i, src, interval, dur) ==
  [inst |-> i, src |-> src, interval |-> interval, isDisposed |-> FALSE,
   phase |-> IF dur = 0 THEN "getDuration" ELSE "loadVideo",
   timePoints |-> IF dur = 0 THEN <<>> ELSE generateTimePoints(dur, interval),
   i |-> 0, frames |-> <<>>,
   superseded |-> FALSE, inFlight |-> FALSE, late |-> 0, lateError |-> 0,
   cbProgress |-> 0, cbComplete |-> 0, cbError |-> 0]

\* VideoFrameExtractor.dispose, on extractorRef.current (0: null)
dispose(es, id) ==
  IF id = 0 THEN es ELSE [es EXCEPT ![id].isDisposed = TRUE]

Superseded(es) ==
  [k \in DOMAIN es |->
     IF es[k].superseded THEN es[k]
     ELSE [es[k] EXCEPT !.superseded = TRUE, !.inFlight = (es[k].phase # "done")]]

Range(f) == {f[k] : k \in DOMAIN f}

(***************************************************************************)
(* useFrameExtractor.extractFrames up to its first await, called in        *)
(* instance i (the mounted one, or the one being mounted), preceded by the *)
(* effect cleanup of the mounted instance when there is one to run: both   *)
(* set abortRef.current = true and dispose extractorRef.current.           *)
(***************************************************************************)
extractFrames(i, src, interval) ==
  /\ exts' = Append(Superseded(dispose(exts, extractorRef)),
                    NewExt(i, src, interval, propDuration))
  /\ extractorRef' = Len(exts) + 1
  /\ abortRef' = [[abortRef EXCEPT ![inst] = TRUE] EXCEPT ![i] = FALSE]
  /\ loading' = TRUE
  /\ progress' = <<0, 1>>
  /\ error' = "none"

dragState == <<selectedRange, internalCurrentTime, dragTypeRef, isDragging,
               dragType>>
fixedProps == <<propDuration, minDuration, disabled, showTimeScale, width,
                currentTimeProp>>

\* VideoTimelineRef.refreshFrames, and the retry button
refreshFrames ==
  /\ mounted
  /\ Len(exts) < MaxExtractions
  /\ extractFrames(inst, videoSrc, frameInterval)
  /\ lastCall' = Call("refreshFrames", "none")
  /\ emitted' = <<>>
  /\ UNCHANGED <<videoSrc, frameInterval, mounted, inst, frames, framesBy,
                 frameImages, loadingImages, videoDuration, dragState,
                 fixedProps, restVars>>

\* a new props.frameInterval: extractFrames is a new callback, so the
\* extraction effect is cleaned up and run again
setFrameInterval(v) ==
  /\ mounted
  /\ v # frameInterval
  /\ Len(exts) < MaxExtractions
  /\ frameInterval' = v
  /\ extractFrames(inst, videoSrc, v)
  /\ lastCall' = Call("setFrameInterval", "none")
  /\ emitted' = <<>>
  /\ UNCHANGED <<videoSrc, mounted, inst, frames, framesBy, frameImages,
                 loadingImages, videoDuration, dragState, fixedProps, restVars>>

(***************************************************************************)
(* A new props.videoSrc.  With an unchanged key VideoTimelineInner stays   *)
(* mounted and only the extraction effect runs again; with a new key the   *)
(* instance is unmounted (effect cleanups) and a fresh one is mounted: its *)
(* state is the initial state, its renderer is new, and its mount effects  *)
(* start an extraction and, with a known duration, set the initial range.  *)
(***************************************************************************)
setVideoSrc(src) ==
  /\ mounted
  /\ src # videoSrc
  /\ Len(exts) < MaxExtractions
  /\ videoSrc' = src
  /\ IF videoKey(src) = videoKey(videoSrc)
     THEN /\ extractFrames(inst, src, frameInterval)
          /\ lastCall' = Call("setVideoSrc", "same key")
          /\ emitted' = <<>>
          /\ UNCHANGED <<inst, frames, framesBy, frameImages, loadingImages,
                         videoDuration, dragState>>
     ELSE /\ inst < MaxMounts
          /\ inst' = inst + 1
          /\ extractFrames(inst + 1, src, frameInterval)
          /\ lastCall' = Call("setVideoSrc", "remount")
          /\ frames' = <<>>
          /\ framesBy' = 0
          /\ frameImages' = {}
          /\ loadingImages' = {}
          /\ videoDuration' = propDuration
          /\ internalCurrentTime' = 0
          /\ dragTypeRef' = "none"
          /\ isDragging' = FALSE
          /\ dragType' = "none"
          /\ selectedRange' = [start |-> 0, end |-> propDuration]
          /\ emitted' = IF propDuration > 0
                        THEN <<<<"rangeChange", 0, propDuration>>>> ELSE <<>>
  /\ UNCHANGED <<frameInterval, mounted, fixedProps, restVars>>

\* the effect cleanups of the mounted instance
unmount ==
  /\ mounted
  /\ mounted' = FALSE
  /\ abortRef' = [abortRef EXCEPT ![inst] = TRUE]
  /\ exts' = Superseded(dispose(exts, extractorRef))
  /\ frameImages' = {}
  /\ lastCall' = Call("unmount", "none")
  /\ emitted' = <<>>
  /\ UNCHANGED <<videoSrc, frameInterval, inst, extractorRef, frames, framesBy,
                 loading, progress, error, loadingImages, videoDuration,
                 dragState, fixedProps, restVars>>

(***************************************************************************)
(* The events of an extractor's video element.  dispose() removes the      *)
(* loadedmetadata / error listeners of loadVideo, so a disposed extractor  *)
(* never leaves loadVideo.  It does not remove the seeked / error          *)
(* listeners of captureFrame, and removing the src attribute does not      *)
(* unload the media: whether the pending seek of a disposed extractor      *)
(* still ends in seeked, in error, or in no event is up to the browser, so *)
(* each of them may happen.                                                *)
(***************************************************************************)
Live(x) == ~abortRef[x.inst]
LateBy(x) == IF x.superseded THEN 1 ELSE 0

\* the hook after `await extractor.extractFrames(...)` has returned fr:
\* setFrames, setLoading(false), onComplete, and the render effect that
\* starts loading the images that are not in the renderer's cache
hookComplete(e, x, fr) ==
  IF Live(x)
  THEN /\ frames' = fr
       /\ framesBy' = e
       /\ loading' = FALSE
       /\ loadingImages' =
            loadingImages \cup ({f.imageData : f \in Range(fr)} \ frameImages)
  ELSE UNCHANGED <<frames, framesBy, loading, loadingImages>>

\* a catch block that swallows the error
hookCatchSwallows(e, x, err) ==
  /\ exts' = [exts EXCEPT ![e] = [x EXCEPT !.phase = "done"]]
  /\ emitted' = <<>>
  /\ UNCHANGED <<videoSrc, frameInterval, mounted, inst, abortRef, extractorRef,
                 frames, framesBy, progress, frameImages, loadingImages,
                 videoDuration, dragState, lastCall, fixedProps, restVars,
                 error, loading>>

\* the hook's catch block
hookCatch(e, x, err) ==
  /\ exts' = [exts EXCEPT ![e] =
                [x EXCEPT !.phase = "done",
                          !.cbError = @ + (IF Live(x) THEN 1 ELSE 0),
                          !.lateError = @ + (IF Live(x) THEN LateBy(x) ELSE 0)]]
  /\ IF Live(x)
     THEN /\ error' = err
          /\ loading' = FALSE
     ELSE UNCHANGED <<error, loading>>
  /\ emitted' = <<>>
  /\ UNCHANGED <<videoSrc, frameInterval, mounted, inst, abortRef, extractorRef,
                 frames, framesBy, progress, frameImages, loadingImages,
                 videoDuration, dragState, lastCall, fixedProps, restVars>>

\* loadVideo: handleLoad, and what the hook does until its next await
loadedmetadata(e) ==
  /\ e \in DOMAIN exts
  /\ exts[e].phase \in {"getDuration", "loadVideo"}
  /\ ~exts[e].isDisposed
  /\ LET x   == exts[e]
         dur == IF x.phase = "getDuration" THEN MediaDuration(x.src)
                ELSE videoDuration
         tp  == IF x.phase = "getDuration"
                THEN generateTimePoints(dur, x.interval) ELSE x.timePoints
         newDuration == dur # videoDuration /\ dur > 0
     IN  \* setVideoDuration, and the initial-range effect it triggers
         /\ videoDuration' = dur
         /\ selectedRange' = IF newDuration THEN [start |-> 0, end |-> dur]
                             ELSE selectedRange
         /\ emitted' = IF newDuration THEN <<<<"rangeChange", 0, dur>>>>
                       ELSE <<>>
         /\ IF tp = <<>>
            THEN /\ exts' = [exts EXCEPT ![e] =
                      [x EXCEPT !.phase = "done",
                                !.cbComplete = @ + (IF Live(x) THEN 1 ELSE 0)]]
                 /\ hookComplete(e, x, <<>>)
            ELSE /\ exts' = [exts EXCEPT ![e] =
                      [x EXCEPT !.phase = "captureFrame", !.timePoints = tp,
                                !.i = 1]]
                 /\ UNCHANGED <<frames, framesBy, loading, loadingImages>>
  /\ UNCHANGED <<videoSrc, frameInterval, mounted, inst, abortRef, extractorRef,
                 progress, error, frameImages, internalCurrentTime, dragTypeRef,
                 isDragging, dragType, lastCall, fixedProps, restVars>>

\* loadVideo: handleError
loaderror(e) ==
  /\ e \in DOMAIN exts
  /\ exts[e].phase \in {"getDuration", "loadVideo"}
  /\ ~exts[e].isDisposed
  /\ hookCatch(e, exts[e], "load")

\* a faulty variant of percent: i / n * 100 for the 0-based index
percentOfIndex(i, n) == <<(i - 1) * 100, n>>

\* ((i + 1) / timePoints.length) * 100 after the capture of the i-th
\* timestamp, counted from 1, as a fraction
percent(i, n) == <<i * 100, n>>

\* captureFrame: handleSeeked with a successful draw, then the capture loop
\* up to its next await or its return
seeked(e) ==
  /\ e \in DOMAIN exts
  /\ exts[e].phase = "captureFrame"
  /\ LET x    == exts[e]
         n    == Len(x.timePoints)
         time == x.timePoints[x.i]
         fr   == Append(x.frames, [time |-> time, imageData |-> <<x.src, time>>])
         p    == percent(x.i, n)
         last == x.i = n \/ x.isDisposed
     IN  /\ exts' = [exts EXCEPT ![e] =
              [x EXCEPT !.frames = fr,
                        !.phase = IF last THEN "done" ELSE "captureFrame",
                        !.i = IF last THEN x.i ELSE x.i + 1,
                        !.cbProgress = @ + (IF Live(x) THEN 1 ELSE 0),
                        !.cbComplete = @ + (IF Live(x) /\ last THEN 1 ELSE 0),
                        !.late = @ + (IF Live(x)
                                      THEN LateBy(x) * (IF last THEN 2 ELSE 1)
                                      ELSE 0)]]
         /\ progress' = IF Live(x) THEN p ELSE progress
         /\ IF last
            THEN hookComplete(e, x, fr)
            ELSE UNCHANGED <<frames, framesBy, loading, loadingImages>>
  /\ emitted' = <<>>
  /\ UNCHANGED <<videoSrc, frameInterval, mounted, inst, abortRef, extractorRef,
                 error, frameImages, videoDuration, dragState, lastCall,
                 fixedProps, restVars>>

\* captureFrame: handleSeeked when drawImage / toDataURL throws
seekedDrawThrows(e) ==
  /\ e \in DOMAIN exts
  /\ exts[e].phase = "captureFrame"
  /\ hookCatch(e, exts[e], "draw")

\* captureFrame: handleError
seekerror(e) ==
  /\ e \in DOMAIN exts
  /\ exts[e].phase = "captureFrame"
  /\ hookCatch(e, exts[e], "capture")

\* preloadFrameImages: an awaited image has loaded and is put in the cache
imageLoaded(k) ==
  /\ k \in loadingImages
  /\ frameImages' = frameImages \cup {k}
  /\ loadingImages' = loadingImages \ {k}
  /\ emitted' = <<>>
  /\ UNCHANGED <<videoSrc, frameInterval, mounted, inst, abortRef, exts,
                 extractorRef, frames, framesBy, loading, progress, error,
                 videoDuration, dragState, lastCall, fixedProps, restVars>>

(***************************************************************************)
(* One VideoFrameExtractor called directly, by any sequence of             *)
(* getDuration, extractFrames and dispose calls.  sampler holds its        *)
(* fields and the calls made on it:                                        *)
(*   isDisposed, currentSrc, blobUrl (0: null, else an index of blobs)     *)
(*   elementSrc, readyState   the src and readyState (0 or 1) of the video *)
(*   loadCall   the call whose handleLoad / handleError are the            *)
(*              currentLoadHandler / currentErrorHandler (0: none)         *)
(*   blobs      every URL.createObjectURL result: how often it was         *)
(*              revoked, and whether the sampler was disposed at creation  *)
(*   calls      every getDuration / extractFrames call: its phase          *)
(*              ("loadVideo", "resuming" after a loadVideo that returned   *)
(*              at once, "captureFrame", "resolved", "rejected"), the      *)
(*              number n of its timePoints, its frames and the number of   *)
(*              onProgress calls it has made                               *)
(***************************************************************************)
NoSrc == [id |-> 0, name |-> "", size |-> 0, lastModified |-> 0, kind |-> "none"]

NewSampler ==
  [isDisposed |-> FALSE, currentSrc |-> NoSrc, blobUrl |-> 0,
   elementSrc |-> NoSrc, readyState |-> 0, loadCall |-> 0,
   blobs |-> <<>>, calls |-> <<>>]

NewCall(op, src, n) ==
  [op |-> op, src |-> src, n |-> n, phase |-> "loadVideo", frames |-> 0,
   progress |-> 0]

\* cleanupListeners
cleanupListeners(s) == [s EXCEPT !.loadCall = 0]

\* revoking without forgetting the URL
revokeBlobUrlKeepsHandle(s) ==
  IF s.blobUrl # 0
  THEN [s EXCEPT !.blobs[s.blobUrl].revoked = @ + 1]
  ELSE s

\* if (this.blobUrl) { URL.revokeObjectURL(this.blobUrl); this.blobUrl = null }
revokeBlobUrl(s) ==
  IF s.blobUrl # 0
  THEN [s EXCEPT !.blobs[s.blobUrl].revoked = @ + 1, !.blobUrl = 0]
  ELSE s

\* the capture loop of extractFrames at the top of an iteration: it ends when
\* every timePoint is captured or the sampler is disposed
loopPhase(call, isDisposed) ==
  IF call.frames = call.n \/ isDisposed THEN "resolved" ELSE "captureFrame"

enterLoop(s, c) ==
  [s EXCEPT !.calls[c].phase = loopPhase(s.calls[c], s.isDisposed)]

\* call c after its `await this.loadVideo(src)` has resolved
afterLoad(s, c) ==
  IF s.calls[c].op = "getDuration"
  THEN [s EXCEPT !.calls[c].phase = "resolved"]
  ELSE enterLoop(s, c)

\* loadVideo(src) in call c, up to its return or its new Promise
loadVideo(s, c, src) ==
  IF s.isDisposed
  THEN [s EXCEPT !.calls[c].phase = "rejected"]
  ELSE IF s.currentSrc = src /\ s.readyState >= 1
  THEN [s EXCEPT !.calls[c].phase = "resuming"]
  ELSE
    LET s1 == revokeBlobUrl(cleanupListeners(s))
        s2 == [s1 EXCEPT !.loadCall = c, !.elementSrc = src, !.readyState = 0]
    IN  IF src.kind = "file"
        THEN [s2 EXCEPT !.blobs = Append(@, [revoked |-> 0,
                                              disposed |-> s.isDisposed]),
                        !.blobUrl = Len(s.blobs) + 1]
        ELSE s2

widgetVars == <<dragVars, extractVars, pureVars, canvasVars, rendererVars>>

\* the calls awaiting the seeked / error event of their captureFrame
Capturing(s) == {c \in DOMAIN s.calls : s.calls[c].phase = "captureFrame"}

\* handleSeeked of every pending captureFrame, and each loop up to its next
\* captureFrame or its return
seekedAll(s) ==
  [s EXCEPT !.calls =
     [c \in DOMAIN s.calls |->
        IF c \in Capturing(s)
        THEN LET pushed == [s.calls[c] EXCEPT !.frames = @ + 1,
                                              !.progress = @ + 1]
             IN  [pushed EXCEPT !.phase = loopPhase(pushed, s.isDisposed)]
        ELSE s.calls[c]]]

\* reject(...) of every pending captureFrame
rejectCapturing(s) ==
  [s EXCEPT !.calls =
     [c \in DOMAIN s.calls |->
        IF c \in Capturing(s)
        THEN [s.calls[c] EXCEPT !.phase = "rejected"]
        ELSE s.calls[c]]]

\* sampler.getDuration(src)
getDuration(src) ==
  /\ Len(sampler.calls) < MaxCalls
  /\ LET c == Len(sampler.calls) + 1
         s == [sampler EXCEPT !.calls = Append(@, NewCall("getDuration", src, 0))]
     IN  sampler' = loadVideo(s, c, src)
  /\ UNCHANGED widgetVars

\* sampler.extractFrames(src, timePoints, ..., onProgress) with n timePoints
samplerExtractFrames(src, n) ==
  /\ Len(sampler.calls) < MaxCalls
  /\ LET c == Len(sampler.calls) + 1
         s == [sampler EXCEPT !.calls = Append(@, NewCall("extractFrames", src, n))]
     IN  sampler' = loadVideo(s, c, src)
  /\ UNCHANGED widgetVars

\* the continuation of a call whose loadVideo returned without waiting
samplerResume(c) ==
  /\ c \in DOMAIN sampler.calls
  /\ sampler.calls[c].phase = "resuming"
  /\ sampler' = afterLoad(sampler, c)
  /\ UNCHANGED widgetVars

\* loadedmetadata on the sampler's video: handleLoad of loadVideo
samplerLoadedmetadata ==
  /\ sampler.loadCall # 0
  /\ LET c == sampler.loadCall
         s == [cleanupListeners(sampler) EXCEPT !.currentSrc = sampler.elementSrc,
                                                !.readyState = 1]
     IN  sampler' = afterLoad(s, c)
  /\ UNCHANGED widgetVars

\* error on the sampler's video: handleError of loadVideo and of every
\* pending captureFrame
samplerError ==
  /\ sampler.loadCall # 0 \/ Capturing(sampler) # {}
  /\ LET c == sampler.loadCall
         s == rejectCapturing(cleanupListeners(sampler))
     IN  sampler' = IF c # 0 /\ ~sampler.isDisposed
                    THEN [s EXCEPT !.calls[c].phase = "rejected"]
                    ELSE s
  /\ UNCHANGED widgetVars

\* seeked on the sampler's video, the frame drawn and encoded
samplerSeeked ==
  /\ Capturing(sampler) # {}
  /\ sampler' = seekedAll(sampler)
  /\ UNCHANGED widgetVars

\* seeked on the sampler's video, drawImage or toDataURL throwing
samplerSeekedDrawThrows ==
  /\ Capturing(sampler) # {}
  /\ sampler' = rejectCapturing(sampler)
  /\ UNCHANGED widgetVars

\* sampler.dispose()
samplerDispose ==
  /\ sampler' = [revokeBlobUrl(cleanupListeners(sampler))
                   EXCEPT !.isDisposed = TRUE, !.currentSrc = NoSrc,
                          !.elementSrc = NoSrc]
  /\ UNCHANGED widgetVars

(***************************************************************************)
(* TimelineRenderer.calculateScaleInterval(duration): the candidates in    *)
(* the order of the array, in ms; rawInterval = duration / targetTicks is  *)
(* compared as duration <= targetTicks * interval.                         *)
(***************************************************************************)
targetTicks == 7
intervals == <<500, 1000, 2000, 5000, 10000, 15000, 30000, 60000, 120000,
               300000, 600000>>

\* the comparison of the loop made strict
calculateScaleIntervalStrict(d) ==
  LET hits == {i \in DOMAIN intervals : d < targetTicks * intervals[i]}
  IN  IF hits = {} THEN 600000
      ELSE intervals[CHOOSE i \in hits : \A j \in hits : i <= j]

\* the first interval of the array that rawInterval does not exceed
calculateScaleInterval(d) ==
  LET hits == {i \in DOMAIN intervals : d <= targetTicks * intervals[i]}
  IN  IF hits = {} THEN 600000
      ELSE intervals[CHOOSE i \in hits : \A j \in hits : i <= j]

(***************************************************************************)
(* TimelineRenderer.drawHandles with the options of the render effect: the *)
(* left edge x and the width of the rectangle passed to drawHandle for     *)
(* each handle.  startX and endX are fractions over duration, so x and     *)
(* width are given multiplied by duration.                                 *)
(***************************************************************************)
\* a faulty variant of drawHandles: the handles are drawn inside the
\* selection
drawHandlesInwards ==
  LET effectiveWidth == width - handleWidth * 2
      startXn == handleWidth * duration + selectedRange.start * effectiveWidth
      endXn   == handleWidth * duration + selectedRange.end * effectiveWidth
      hw      == handleWidth * duration
  IN  [start |-> [x |-> startXn, width |-> hw],
       end   |-> [x |-> endXn - hw, width |-> hw]]

drawHandles ==
  LET effectiveWidth == width - handleWidth * 2
      startXn == handleWidth * duration + selectedRange.start * effectiveWidth
      endXn   == handleWidth * duration + selectedRange.end * effectiveWidth
      hw      == handleWidth * duration
  IN  [start |-> [x |-> startXn - hw, width |-> hw],
       end   |-> [x |-> endXn, width |-> hw]]

(***************************************************************************)
(* One TimelineRenderer called directly.  renderer holds                   *)
(*   disposed     dispose() has been called                                *)
(*   frameImages  the keys (imageData) of its image cache                  *)
(*   renders      every render call: its frames (their imageData), the     *)
(*                loadImage promises it awaits (pending), those of its     *)
(*                images that have resolved or were cached (resolved),     *)
(*                whether one has failed, its phase ("preload" inside      *)
(*                preloadFrameImages, "drawn" when render has returned,    *)
(*                "rejected" when it has thrown), the tiles it has drawn   *)
(*                and whether it has drawn the selection mask, the handles *)
(*                and the cursor (overlay)                                 *)
(***************************************************************************)
NewRenderer == [disposed |-> FALSE, frameImages |-> {}, renders |-> <<>>]

\* the loop of drawFrames after preloadFrameImages, then steps 4 to 6 of
\* render, for render call r
drawAll(rd, r) ==
  LET fs == rd.renders[r].frames
  IN  [rd EXCEPT !.renders[r].phase = "drawn",
                 !.renders[r].tiles = {i \in DOMAIN fs : fs[i] \in rd.frameImages},
                 !.renders[r].overlay = TRUE]

rendererVarsRest == <<dragVars, extractVars, pureVars, canvasVars, samplerVars>>

\* renderer.render(options) with options.frames = fs, up to its return or
\* to the await of preloadFrameImages
render(fs) ==
  /\ ~renderer.disposed
  /\ Len(renderer.renders) < MaxRenders
  /\ LET r    == Len(renderer.renders) + 1
         miss == Range(fs) \ renderer.frameImages
         rd   == [renderer EXCEPT !.renders = Append(@,
                    [frames |-> fs, pending |-> miss,
                     resolved |-> Range(fs) \cap renderer.frameImages,
                     failed |-> FALSE, phase |-> "preload", tiles |-> {},
                     overlay |-> FALSE])]
     IN  renderer' = IF miss = {} THEN drawAll(rd, r) ELSE rd
  /\ UNCHANGED rendererVarsRest

\* loadImage: img.onload for the image k awaited by render call r, then
\* frameImages.set, and the rest of render when it was the last one awaited
imageOnload(r, k) ==
  /\ r \in DOMAIN renderer.renders
  /\ k \in renderer.renders[r].pending
  /\ LET rd == [renderer EXCEPT !.frameImages = @ \cup {k},
                                !.renders[r].pending = @ \ {k},
                                !.renders[r].resolved = @ \cup {k}]
     IN  renderer' = IF rd.renders[r].pending = {} /\ ~rd.renders[r].failed
                     THEN drawAll(rd, r) ELSE rd
  /\ UNCHANGED rendererVarsRest

\* loadImage: img.onerror for the image k awaited by render call r: the
\* promise rejects, and with it Promise.all, preloadFrameImages, drawFrames
\* and render
imageOnerror(r, k) ==
  /\ r \in DOMAIN renderer.renders
  /\ k \in renderer.renders[r].pending
  /\ renderer' = [renderer EXCEPT !.renders[r].pending = @ \ {k},
                                  !.renders[r].failed = TRUE,
                                  !.renders[r].phase = "rejected"]
  /\ UNCHANGED rendererVarsRest

\* renderer.dispose(), called once by the cleanup of the renderer effect
rendererDispose ==
  /\ ~renderer.disposed
  /\ renderer' = [renderer EXCEPT !.disposed = TRUE, !.frameImages = {}]
  /\ UNCHANGED rendererVarsRest

(***************************************************************************)
(* Inputs of the drag specification.  With width 52 the track is 20 pixels *)
(* wide, so with duration 10 s a pixel is 0.5 s.                           *)
(***************************************************************************)
DragWidths == {52}
DragDurations == {10000, 5000}
DragMinDurations == {DEFAULT_MIN_DURATION, 1000}
\* props.selectedRange / props.defaultSelectedRange
DragRanges ==
  { [start |-> 0, end |-> 0],
    [start |-> 2000, end |-> 8000],
    [start |-> 0, end |-> 10000],
    [start |-> 0, end |-> 8000] }
ImperativeRanges == {[start |-> 2000, end |-> 8000], [start |-> 9950, end |-> 10000]}
PointerXs == {-3, 12, 16, 18, 22, 31, 36, 52}
PointerYs == {-1, 10, 27, 50, 77, MaxPointerY}

NoCall == [op |-> "init", hit |-> "none"]

\* no extraction is running: the widget is mounted and its frames are not
\* looked at
ExtractIdle ==
  /\ videoSrc = Url("v")
  /\ frameInterval = DEFAULT_FRAME_INTERVAL
  /\ mounted = TRUE
  /\ inst = 1
  /\ abortRef = [i \in 1..MaxMounts |-> FALSE]
  /\ exts = <<>>
  /\ extractorRef = 0
  /\ frames = <<>>
  /\ framesBy = 0
  /\ loading = FALSE
  /\ progress = <<0, 1>>
  /\ error = "none"
  /\ frameImages = {}
  /\ loadingImages = {}

\* the canvas has no inline cursor style, and no VideoFrameExtractor is
\* called directly
CanvasIdle == cursorStyle = ""
SamplerIdle == sampler = NewSampler
\* no TimelineRenderer is called directly
RendererIdle == renderer = NewRenderer

\* props.currentTime is not passed
NotGiven == [given |-> FALSE, value |-> 0]

PureIdle ==
  /\ pIn = [fn |-> "none", duration |-> 0, interval |-> 0, width |-> 0, t |-> 0]
  /\ pOut = [fn |-> "none", points |-> <<>>, pixel |-> <<0, 1>>, time |-> 0,
            scale |-> 0, turn |-> 0]

InitDrag ==
  /\ propDuration \in DragDurations
  /\ videoDuration = 0
  /\ minDuration \in DragMinDurations
  /\ disabled \in BOOLEAN
  /\ showTimeScale \in BOOLEAN
  /\ width \in DragWidths
  /\ currentTimeProp = NotGiven
  /\ selectedRange \in DragRanges
  /\ internalCurrentTime = 0
  /\ dragTypeRef = "none"
  /\ isDragging = FALSE
  /\ dragType = "none"
  /\ emitted = <<>>
  /\ lastCall = NoCall
  /\ ExtractIdle
  /\ PureIdle
  /\ CanvasIdle
  /\ SamplerIdle
  /\ RendererIdle

NextDrag ==
  \/ \E x \in PointerXs, y \in PointerYs : handleMouseDown(x, y)
  \/ \E x \in PointerXs : handleMouseMove(x)
  \/ handleMouseUp
  \/ \E r \in ImperativeRanges : setSelectedRange(r)

SpecDrag == InitDrag /\ [][NextDrag]_vars

(***************************************************************************)
(* The pure functions on drawn inputs: generateTimePoints(duration,        *)
(* interval), and the round trip time -> pixel -> time.                    *)
(***************************************************************************)
GenDurations == (1..MaxGenDuration) \cup {1000, 2000, 9950, 10000}
GenIntervals == {7, 100, 200, 333, 1000, 2000, 3000}
GenInputs ==
  {in \in [duration : GenDurations, interval : GenIntervals] :
     in.duration \div in.interval <= MaxPoints}
RtDurations == (1..MaxSmallDuration) \cup {505, 1000}
RtWidths == {33, 52, 420}
\* arguments of generateTimePoints run step by step: the frameInterval prop
\* is any number, 0 among them
LoopDurations == {0, 250, 1000}
LoopIntervals == {0, 200, 333}
\* durations around each threshold 7 * interval, a short one and a long one
ScaleDurations ==
  {targetTicks * intervals[i] + d : i \in DOMAIN intervals, d \in {-10, 0, 10}}
    \cup {10, 1000, 10000, 5000000}

DragIdle ==
  /\ propDuration = 0
  /\ videoDuration = 0
  /\ minDuration = DEFAULT_MIN_DURATION
  /\ disabled = FALSE
  /\ showTimeScale = TRUE
  /\ width = 52
  /\ currentTimeProp = NotGiven
  /\ selectedRange = [start |-> 0, end |-> 0]
  /\ internalCurrentTime = 0
  /\ dragTypeRef = "none"
  /\ isDragging = FALSE
  /\ dragType = "none"
  /\ emitted = <<>>
  /\ lastCall = NoCall

InitPure ==
  /\ DragIdle
  /\ ExtractIdle
  /\ CanvasIdle
  /\ SamplerIdle
  /\ RendererIdle
  /\ pOut = [fn |-> "none", points |-> <<>>, pixel |-> <<0, 1>>, time |-> 0,
            scale |-> 0, turn |-> 0]
  /\ \/ \E in \in GenInputs :
          pIn = [fn |-> "generateTimePoints", duration |-> in.duration,
                 interval |-> in.interval, width |-> 0, t |-> 0]
     \/ \E d \in RtDurations, w \in RtWidths :
          \E t \in 0..d :
            pIn = [fn |-> "roundTrip", duration |-> d, interval |-> 0,
                   width |-> w, t |-> t]
     \/ \E d \in LoopDurations, i \in LoopIntervals :
          pIn = [fn |-> "timePointsLoop", duration |-> d, interval |-> i,
                 width |-> 0, t |-> 0]
     \/ \E d \in ScaleDurations :
          pIn = [fn |-> "calculateScaleInterval", duration |-> d,
                 interval |-> 0, width |-> 0, t |-> 0]

applyGenerateTimePoints ==
  /\ pIn.fn = "generateTimePoints"
  /\ pOut.fn = "none"
  /\ pOut' = [pOut EXCEPT !.fn = "generateTimePoints",
                          !.points = generateTimePoints(pIn.duration, pIn.interval)]
  /\ UNCHANGED <<pIn, dragVars, extractVars, canvasVars, samplerVars,
                 rendererVars>>

applyRoundTrip ==
  /\ pIn.fn = "roundTrip"
  /\ pOut.fn = "none"
  /\ LET px == timeToPixel(pIn.t, pIn.width, pIn.duration)
     IN  pOut' = [pOut EXCEPT !.fn = "roundTrip",
                              !.pixel = px,
                              !.time = pixelToTimeOf(px[1], px[2], pIn.width, pIn.duration)]
  /\ UNCHANGED <<pIn, dragVars, extractVars, canvasVars, samplerVars,
                 rendererVars>>

applyCalculateScaleInterval ==
  /\ pIn.fn = "calculateScaleInterval"
  /\ pOut.fn = "none"
  /\ pOut' = [pOut EXCEPT !.fn = "calculateScaleInterval",
                          !.scale = calculateScaleInterval(pIn.duration)]
  /\ UNCHANGED <<pIn, dragVars, extractVars, canvasVars, samplerVars,
                 rendererVars>>

\* generateTimePoints step by step.  pOut.time is the loop variable t,
\* pOut.points the array and pOut.turn the parity of the number of turns of
\* the loop; of an array longer than MaxPoints only the first MaxPoints
\* points are kept.
\* one turn of the for loop: points.push(t); t += interval
loopIteration ==
  /\ pIn.fn = "timePointsLoop"
  /\ pOut.fn \in {"none", "loop"}
  /\ pOut.time < pIn.duration
  /\ pOut' = [pOut EXCEPT !.fn = "loop",
                          !.points = IF Len(@) < MaxPoints
                                     THEN Append(@, pOut.time) ELSE @,
                          !.time = @ + pIn.interval,
                          !.turn = 1 - @]
  /\ UNCHANGED <<pIn, dragVars, extractVars, canvasVars, samplerVars,
                 rendererVars>>

\* the loop is left, the closing point is added, the array is returned
loopExit ==
  /\ pIn.fn = "timePointsLoop"
  /\ pOut.fn \in {"none", "loop"}
  /\ ~(pOut.time < pIn.duration)
  /\ pOut' = [pOut EXCEPT !.fn = "returned",
                          !.points =
                            IF Len(@) > 0 /\ @[Len(@)] < pIn.duration - 100
                            THEN Append(@, pIn.duration - 10) ELSE @]
  /\ UNCHANGED <<pIn, dragVars, extractVars, canvasVars, samplerVars,
                 rendererVars>>

NextPure ==
  \/ applyGenerateTimePoints
  \/ applyRoundTrip
  \/ applyCalculateScaleInterval
  \/ loopIteration
  \/ loopExit

SpecPure == InitPure /\ [][NextPure]_vars

\* a call that has been made runs on: the thread that executes it is not
\* suspended
SpecPureFair == SpecPure /\ WF_vars(NextPure)

(***************************************************************************)
(* The widget: one VideoTimeline whose videoSrc and frameInterval props    *)
(* change, whose extractions run against the events of their video         *)
(* elements, and whose pointer is used.  selectedRange and currentTime are *)
(* not passed (uncontrolled), nor is defaultSelectedRange.                 *)
(* Two Files share name, size and lastModified, a third differs in         *)
(* lastModified only, and one URL spells the key of the first File.        *)
(***************************************************************************)
Sources ==
  { File(1, "a", 1, 1), File(2, "a", 1, 1), File(3, "a", 1, 2),
    Url("v"), Url("a_1_1") }
InitialSources == {File(1, "a", 1, 1), Url("v")}
WidgetDurations == {0, 1000}
FrameIntervals == {1000, 2000}
WidgetXs == {31}
WidgetYs == {40}
WidgetRanges == {[start |-> 0, end |-> 50]}

Init ==
  /\ propDuration \in WidgetDurations
  /\ videoDuration = propDuration
  /\ minDuration = DEFAULT_MIN_DURATION
  /\ disabled = FALSE
  /\ showTimeScale = TRUE
  /\ width = 52
  /\ currentTimeProp = NotGiven
  /\ selectedRange = [start |-> 0, end |-> propDuration]
  /\ internalCurrentTime = 0
  /\ dragTypeRef = "none"
  /\ isDragging = FALSE
  /\ dragType = "none"
  /\ emitted = IF propDuration > 0
               THEN <<<<"rangeChange", 0, propDuration>>>> ELSE <<>>
  /\ lastCall = Call("mount", "none")
  /\ videoSrc \in InitialSources
  /\ frameInterval = 1000
  /\ mounted = TRUE
  /\ inst = 1
  /\ abortRef = [i \in 1..MaxMounts |-> FALSE]
  /\ exts = <<NewExt(1, videoSrc, frameInterval, propDuration)>>
  /\ extractorRef = 1
  /\ frames = <<>>
  /\ framesBy = 0
  /\ loading = TRUE
  /\ progress = <<0, 1>>
  /\ error = "none"
  /\ frameImages = {}
  /\ loadingImages = {}
  /\ PureIdle
  /\ CanvasIdle
  /\ SamplerIdle
  /\ RendererIdle

Next ==
  \/ refreshFrames
  \/ \E v \in FrameIntervals : setFrameInterval(v)
  \/ \E src \in Sources : setVideoSrc(src)
  \/ unmount
  \/ \E e \in 1..MaxExtractions : loadedmetadata(e)
  \/ \E e \in 1..MaxExtractions : loaderror(e)
  \/ \E e \in 1..MaxExtractions : seeked(e)
  \/ \E e \in 1..MaxExtractions : seekedDrawThrows(e)
  \/ \E e \in 1..MaxExtractions : seekerror(e)
  \/ \E k \in loadingImages : imageLoaded(k)
  \/ \E x \in WidgetXs, y \in WidgetYs : handleMouseDown(x, y)
  \/ \E x \in WidgetXs : handleMouseMove(x)
  \/ handleMouseUp
  \/ \E r \in WidgetRanges : setSelectedRange(r)
  \/ \E newOnRangeChange \in BOOLEAN : hostRerender(newOnRangeChange)

Spec == Init /\ [][Next]_vars

(***************************************************************************)
(* The extractions of the widget alone: the props that restart them, the   *)
(* unmount and the events of the video elements, without the pointer.      *)
(***************************************************************************)
ExtractSources == {File(1, "a", 1, 1), Url("v")}

NextExtract ==
  \/ refreshFrames
  \/ \E v \in FrameIntervals : setFrameInterval(v)
  \/ \E src \in ExtractSources : setVideoSrc(src)
  \/ unmount
  \/ \E e \in 1..MaxExtractions : loadedmetadata(e)
  \/ \E e \in 1..MaxExtractions : loaderror(e)
  \/ \E e \in 1..MaxExtractions : seeked(e)
  \/ \E e \in 1..MaxExtractions : seekedDrawThrows(e)
  \/ \E e \in 1..MaxExtractions : seekerror(e)
  \/ \E k \in loadingImages : imageLoaded(k)

SpecExtract == Init /\ [][NextExtract]_vars

(***************************************************************************)
(* One VideoFrameExtractor under any sequence of at most MaxCalls          *)
(* getDuration / extractFrames calls, dispose() calls and events of its    *)
(* video element.  Two Files and one URL are the sources; an extraction    *)
(* has no or two timePoints.                                               *)
(***************************************************************************)
SamplerSources == {File(1, "a", 1, 1), File(2, "a", 1, 1), Url("v")}
SamplerPoints == {0, 2}

InitSampler ==
  /\ DragIdle
  /\ ExtractIdle
  /\ PureIdle
  /\ CanvasIdle
  /\ SamplerIdle
  /\ RendererIdle

NextSampler ==
  \/ \E src \in SamplerSources : getDuration(src)
  \/ \E src \in SamplerSources, n \in SamplerPoints : samplerExtractFrames(src, n)
  \/ \E c \in 1..MaxCalls : samplerResume(c)
  \/ samplerLoadedmetadata
  \/ samplerError
  \/ samplerSeeked
  \/ samplerSeekedDrawThrows
  \/ samplerDispose

SpecSampler == InitSampler /\ [][NextSampler]_vars

(***************************************************************************)
(* The pointer on the canvas: mouse and touch events, hovering, and the    *)
(* imperative setCurrentTime, on a timeline of 10 s that is enabled or     *)
(* disabled and whose currentTime prop is passed or not.                   *)
(***************************************************************************)
GivenTimes == {2000}
ImperativeTimes == {3000}
TouchCounts == {1, 2}
HoverXs == {12, 22, 31, 36}
HoverYs == {10, 50, MaxPointerY}
\* where the pointer moves to: left of the canvas, inside, right of it
TouchXs == {-3, 22, 31, 60}

InitPointer ==
  /\ propDuration = 10000
  /\ videoDuration = 0
  /\ minDuration = DEFAULT_MIN_DURATION
  /\ disabled \in BOOLEAN
  /\ showTimeScale = TRUE
  /\ width = 52
  /\ currentTimeProp \in
       {NotGiven} \cup {[given |-> TRUE, value |-> t] : t \in GivenTimes}
  /\ selectedRange = [start |-> 2000, end |-> 8000]
  /\ internalCurrentTime = propCurrentTime.value
  /\ dragTypeRef = "none"
  /\ isDragging = FALSE
  /\ dragType = "none"
  /\ emitted = <<>>
  /\ lastCall = NoCall
  /\ ExtractIdle
  /\ PureIdle
  /\ CanvasIdle
  /\ SamplerIdle
  /\ RendererIdle

NextPointer ==
  \/ \E x \in HoverXs, y \in HoverYs : handleMouseDown(x, y)
  \/ \E x \in TouchXs : handleMouseMove(x)
  \/ handleMouseUp
  \/ \E n \in TouchCounts, x \in HoverXs, y \in HoverYs : handleTouchStart(n, x, y)
  \/ \E n \in TouchCounts, x \in TouchXs : handleTouchMove(n, x)
  \/ handleTouchEnd
  \/ touchcancel
  \/ \E x \in HoverXs, y \in HoverYs : updateCursor(x, y)
  \/ \E t \in ImperativeTimes : setCurrentTime(t)

SpecPointer == InitPointer /\ [][NextPointer]_vars

(***************************************************************************)
(* The mouse on the canvas of a timeline whose disabled prop the host      *)
(* changes between events.                                                 *)
(***************************************************************************)
NextDisable ==
  \/ \E x \in HoverXs, y \in HoverYs : handleMouseDown(x, y)
  \/ \E x \in TouchXs : handleMouseMove(x)
  \/ handleMouseUp
  \/ \E v \in BOOLEAN : setDisabled(v)

SpecDisable == InitPointer /\ [][NextDisable]_vars

(***************************************************************************)
(* One TimelineRenderer under at most MaxRenders render calls over three   *)
(* images, the events of the images they load, and dispose().              *)
(***************************************************************************)
RenderFrames == {<<>>, <<1, 2>>, <<2, 3>>}

InitRenderer ==
  /\ DragIdle
  /\ ExtractIdle
  /\ PureIdle
  /\ CanvasIdle
  /\ SamplerIdle
  /\ RendererIdle

NextRenderer ==
  \/ \E fs \in RenderFrames : render(fs)
  \/ \E r \in 1..MaxRenders, k \in 1..3 : imageOnload(r, k)
  \/ \E r \in 1..MaxRenders, k \in 1..3 : imageOnerror(r, k)
  \/ rendererDispose

SpecRenderer == InitRenderer /\ [][NextRenderer]_vars

(***************************************************************************)
(* Properties of the drag-interaction hook, under SpecDrag.                *)
(***************************************************************************)
IsRangeChange(ev) == ev[1] = "rangeChange"

\* C2: every range emitted through range-changed by a start-handle or
\* end-handle drag move satisfies end - start >= minDuration and
\* 0 <= start <= end <= duration, whatever the current selected range,
\* duration, minDuration and pointer position are.
C2_EmittedRangeValid ==
  (lastCall.op = "mousemove" /\ dragTypeRef \in {"start", "end"}) =>
    \A k \in DOMAIN emitted :
      IsRangeChange(emitted[k]) =>
        /\ emitted[k][3] - emitted[k][2] >= minDuration
        /\ 0 <= emitted[k][2]
        /\ emitted[k][2] <= emitted[k][3]
        /\ emitted[k][3] <= duration

\* C3: during a start-handle drag a pointer move to raw time t gives
\* clampedStart = max(0, min(t, end - minDuration)); when it differs from the
\* current start, range-changed {clampedStart, end} is emitted and then
\* time-changed(clampedStart), otherwise nothing is emitted; with range
\* {2, 8}, t = 7.5 and minDuration 1 the events are range {7, 8} and time 7.
C3_StartHandleMove ==
  [][\A x \in PointerXs :
       (dragTypeRef = "start" /\ lastCall'.op = "mousemove" /\ handleMouseMove(x)) =>
         LET t == pixelToTime(x)
             upper == selectedRange.end - minDuration
             lower == IF t <= upper THEN t ELSE upper
             expected == IF lower >= 0 THEN lower ELSE 0
         IN  /\ emitted' =
                  IF expected # selectedRange.start
                  THEN << <<"rangeChange", expected, selectedRange.end>>,
                          <<"timeChange", expected>> >>
                  ELSE <<>>
             /\ (/\ selectedRange = [start |-> 2000, end |-> 8000]
                 /\ t = 7500
                 /\ minDuration = 1000)
                => emitted' = << <<"rangeChange", 7000, 8000>>,
                                 <<"timeChange", 7000>> >>
    ]_vars

\* a start-handle drag has been moved to 7.5 s with minDuration 1 s and has
\* emitted range {7, 8} and time 7
C3_Witness ==
  /\ lastCall.op = "mousemove"
  /\ dragTypeRef = "start"
  /\ minDuration = 1000
  /\ selectedRange = [start |-> 7000, end |-> 8000]
  /\ emitted = << <<"rangeChange", 7000, 8000>>, <<"timeChange", 7000>> >>

\* C4: during an end-handle drag a pointer move to raw time t gives
\* clampedEnd = min(duration, max(t, start + minDuration)); when it differs
\* from the current end, range-changed {start, clampedEnd} is emitted and
\* then time-changed(clampedEnd), otherwise nothing is emitted; with start 2,
\* t = 1 and minDuration 1 the emitted range is {2, 3}.
C4_EndHandleMove ==
  [][\A x \in PointerXs :
       (dragTypeRef = "end" /\ lastCall'.op = "mousemove" /\ handleMouseMove(x)) =>
         LET t == pixelToTime(x)
             lower == selectedRange.start + minDuration
             upper == IF t >= lower THEN t ELSE lower
             expected == IF upper <= duration THEN upper ELSE duration
         IN  /\ emitted' =
                  IF expected # selectedRange.end
                  THEN << <<"rangeChange", selectedRange.start, expected>>,
                          <<"timeChange", expected>> >>
                  ELSE <<>>
             /\ (/\ selectedRange.start = 2000
                 /\ selectedRange.end # 3000
                 /\ duration >= 3000
                 /\ t = 1000
                 /\ minDuration = 1000)
                => emitted'[1] = <<"rangeChange", 2000, 3000>>
    ]_vars

\* an end-handle drag from range {2, 8} has been moved to 1 s with
\* minDuration 1 s and has emitted range {2, 3}
C4_Witness ==
  /\ lastCall.op = "mousemove"
  /\ dragTypeRef = "end"
  /\ minDuration = 1000
  /\ selectedRange = [start |-> 2000, end |-> 3000]
  /\ emitted = << <<"rangeChange", 2000, 3000>>, <<"timeChange", 3000>> >>

\* the hit region of the point (x, y) by the precedence of C5, with the edges
\* of the selection at handleWidth + (time / duration) * (width - 2 handleWidth)
PrecedenceHit(x, y) ==
  LET track     == width - 2 * handleWidth
      startEdge == handleWidth * duration + selectedRange.start * track
      endEdge   == handleWidth * duration + selectedRange.end * track
      reach     == handleWidth * duration
      px        == x * duration
  IN  IF 0 <= y /\ y < scaleHeight THEN "cursor"
      ELSE IF scaleHeight <= y /\ y <= scaleHeight + frameHeight
      THEN IF startEdge - reach <= px /\ px <= startEdge THEN "start"
           ELSE IF endEdge <= px /\ px <= endEdge + reach THEN "end"
           ELSE "cursor"
      ELSE "none"

\* C5: hit-testing precedence.  A point whose y is in the scale strip is
\* cursor for every x; in the frame strip a point within handleWidth pixels
\* to the left of the start edge is start, else one within handleWidth pixels
\* to the right of the end edge is end, else cursor; a point outside both
\* strips is no hit, and a pointer-down there leaves the controller as it
\* was (idle stays idle) and emits nothing.
C5_HitPrecedence ==
  [][\A x \in PointerXs, y \in PointerYs :
       (~disabled /\ lastCall'.op = "mousedown" /\ handleMouseDown(x, y)) =>
         /\ lastCall'.hit = PrecedenceHit(x, y)
         /\ (0 <= y /\ y < scaleHeight) => dragTypeRef' = "cursor"
         /\ PrecedenceHit(x, y) # "none" => dragTypeRef' = PrecedenceHit(x, y)
         /\ PrecedenceHit(x, y) = "none" =>
              /\ dragTypeRef' = dragTypeRef
              /\ isDragging' = isDragging
              /\ dragType' = dragType
              /\ emitted' = <<>>
    ]_vars

\* a pointer-down outside both strips has been handled: the controller is
\* idle and nothing was emitted
C5_Witness ==
  /\ ~disabled
  /\ lastCall = Call("mousedown", "none")
  /\ dragTypeRef = "none"
  /\ ~isDragging
  /\ emitted = <<>>

\* C6, as stated: outside the scale strip, a point whose horizontal distance
\* to a selection edge is at most handleWidth resolves to that edge's handle,
\* also when the point lies inside the selected region.  (Taken in the frame
\* strip; a point within handleWidth of both edges may resolve to either.)
C6_AsStated ==
  [][\A x \in PointerXs, y \in PointerYs :
       (/\ ~disabled
        /\ lastCall'.op = "mousedown"
        /\ handleMouseDown(x, y)
        /\ scaleHeight <= y /\ y <= scaleHeight + frameHeight) =>
         LET track     == width - 2 * handleWidth
             startEdge == handleWidth * duration + selectedRange.start * track
             endEdge   == handleWidth * duration + selectedRange.end * track
             reach     == handleWidth * duration
             px        == x * duration
             nearStart == startEdge - reach <= px /\ px <= startEdge + reach
             nearEnd   == endEdge - reach <= px /\ px <= endEdge + reach
         IN  /\ (nearStart /\ ~nearEnd) => lastCall'.hit = "start"
             /\ (nearEnd /\ ~nearStart) => lastCall'.hit = "end"
             /\ (nearStart /\ nearEnd) => lastCall'.hit \in {"start", "end"}
    ]_vars

\* C6, as the code has it: in the frame strip a handle reaches handleWidth
\* pixels outwards from its edge only.  A point from handleWidth pixels left
\* of the start edge up to the edge resolves to start, a point from the end
\* edge up to handleWidth pixels right of it resolves to end (start first
\* where the two overlap), and a point strictly between the two edges
\* resolves to cursor however close to an edge it is.
C6_HandlesReachOutwards ==
  [][\A x \in PointerXs, y \in PointerYs :
       (/\ ~disabled
        /\ lastCall'.op = "mousedown"
        /\ handleMouseDown(x, y)
        /\ scaleHeight <= y /\ y <= scaleHeight + frameHeight) =>
         LET track     == width - 2 * handleWidth
             startEdge == handleWidth * duration + selectedRange.start * track
             endEdge   == handleWidth * duration + selectedRange.end * track
             reach     == handleWidth * duration
             px        == x * duration
             leftOfStart == startEdge - reach <= px /\ px <= startEdge
             rightOfEnd  == endEdge <= px /\ px <= endEdge + reach
         IN  /\ leftOfStart => lastCall'.hit = "start"
             /\ (rightOfEnd /\ ~leftOfStart) => lastCall'.hit = "end"
             /\ (startEdge < px /\ px < endEdge) => lastCall'.hit = "cursor"
    ]_vars

\* with no scale strip and the range {0, 10} of a 10 s video on a 52 pixel
\* canvas (edges at 16 and 36), a pointer-down at x = 18 - inside the
\* selection, 2 pixels from the start edge - has started a cursor drag at 1 s
C6_Witness ==
  /\ ~showTimeScale
  /\ ~disabled
  /\ width = 52
  /\ propDuration = 10000
  /\ selectedRange = [start |-> 0, end |-> 10000]
  /\ lastCall = Call("mousedown", "cursor")
  /\ emitted = << <<"dragStart", "cursor">>, <<"timeChange", 1000>> >>

(***************************************************************************)
(* Properties of the pure functions, under SpecPure.                       *)
(***************************************************************************)
\* C7: for every duration > 0 and interval > 0 the list of generateTimePoints
\* holds a point p with duration - 0.1 <= p <= duration; for duration 10 and
\* interval 2 the list is exactly [0, 2, 4, 6, 8, 9.99].
C7_PointNearTheEnd ==
  pOut.fn = "generateTimePoints" =>
    /\ \E k \in DOMAIN pOut.points :
         /\ pIn.duration - 100 <= pOut.points[k]
         /\ pOut.points[k] <= pIn.duration
    /\ (pIn.duration = 10000 /\ pIn.interval = 2000) =>
         pOut.points = <<0, 2000, 4000, 6000, 8000, 9990>>

\* generateTimePoints(10, 2) has been computed, with its closing point 9.99
C7_Witness ==
  /\ pOut.fn = "generateTimePoints"
  /\ pIn.duration = 10000
  /\ pIn.interval = 2000
  /\ Len(pOut.points) = 6
  /\ pOut.points[6] = 9990

\* C8: for every duration > 0, width > 2 * handleWidth and t in
\* [0, duration], the pixel handleWidth + (t / duration) * (width -
\* 2 * handleWidth) converted back with pixelToTime is within 0.01 s of t.
C8_RoundTrip ==
  pOut.fn = "roundTrip" =>
    /\ pOut.time - pIn.t <= 10
    /\ pIn.t - pOut.time <= 10

\* a round trip has been taken from a time that is not a multiple of 0.01 s
\* and has come back to another time
C8_Witness ==
  /\ pOut.fn = "roundTrip"
  /\ pIn.duration = 505
  /\ pIn.t = 505
  /\ pOut.time = 510

(***************************************************************************)
(* Properties of the widget, under Spec.                                   *)
(***************************************************************************)
\* C1: when extraction A is started and extraction B is started in the same
\* widget instance before A finishes, no progress and no completion callback
\* of A reaches the caller after B has started, and A delivers no
\* frames-extracted at all: the only one is B's.
C1_SupersededExtractionIsSilent ==
  \A a \in DOMAIN exts, b \in DOMAIN exts :
    (b = a + 1 /\ exts[b].inst = exts[a].inst /\ exts[a].inFlight) =>
      /\ exts[a].late = 0
      /\ exts[a].cbComplete = 0

\* C9: after the video resource is swapped while an extraction of the old
\* resource is in flight, or the widget is unmounted, that extraction
\* delivers no progress, completion or error callback, and its frames are
\* never stored as the frame list of the widget.
C9_OldResourceIsSilent ==
  \A e \in DOMAIN exts :
    (/\ exts[e].superseded
     /\ exts[e].inFlight
     /\ (~mounted \/ exts[e].src # videoSrc)) =>
      /\ exts[e].late = 0
      /\ exts[e].lateError = 0
      /\ framesBy # e

\* a change of the videoSrc reference: to a URL string that is not the old
\* value, or to a File whose name, size or lastModified is not that of the
\* old value
ReferenceChange(old, new) ==
  \/ new.kind = "url" /\ new # old
  \/ /\ new.kind = "file"
     /\ \/ old.kind # "file"
        \/ new.name # old.name
        \/ new.size # old.size
        \/ new.lastModified # old.lastModified

\* C10: whenever the videoSrc reference changes (a different URL string, or
\* a File whose name, size or lastModified differs), immediately after the
\* change the frame list is empty, the drag state is idle, the image cache
\* of the renderer is empty and progress is 0.
C10_ReferenceChangeRebuilds ==
  [][\A src \in Sources :
       (/\ lastCall'.op = "setVideoSrc"
        /\ ReferenceChange(videoSrc, src)
        /\ setVideoSrc(src)) =>
         /\ frames' = <<>>
         /\ dragTypeRef' = "none"
         /\ ~isDragging'
         /\ dragType' = "none"
         /\ frameImages' = {}
         /\ loadingImages' = {}
         /\ progress' = <<0, 1>>
    ]_vars

\* C11: once an extraction has been aborted - its extractor disposed by a
\* new extraction or by an unmount while it was running - no error raised
\* after that on the discarded video element reaches the error callback or
\* the error state.
C11_AbortedExtractionRaisesNoError ==
  \A e \in DOMAIN exts :
    (exts[e].superseded /\ exts[e].inFlight) => exts[e].lateError = 0

(***************************************************************************)
(* Properties of one VideoFrameExtractor, under SpecSampler.               *)
(***************************************************************************)
\* C12: after dispose() on a sampler with an extraction awaiting its load or
\* a seek, that extraction appends no further frame and calls onProgress no
\* further time, and an extraction awaiting its load is not rejected.
C12_DisposedExtractionIsInert ==
  [][\A c \in DOMAIN sampler.calls :
       (sampler.isDisposed /\ sampler.calls[c].op = "extractFrames"
          /\ sampler.calls[c].phase \in {"loadVideo", "captureFrame"})
       => /\ sampler'.calls[c].frames = sampler.calls[c].frames
          /\ sampler'.calls[c].progress = sampler.calls[c].progress
          /\ (sampler.calls[c].phase = "loadVideo"
                => sampler'.calls[c].phase # "rejected")]_vars

\* C13: every blob URL made for a File is revoked exactly once: none is
\* revoked twice, none but the one held is unrevoked, none is held or
\* unrevoked after dispose(), and none is created after dispose().
C13_BlobUrlsRevokedOnce ==
  /\ \A k \in DOMAIN sampler.blobs :
        /\ sampler.blobs[k].revoked <= 1
        /\ sampler.blobs[k].revoked = 0 => sampler.blobUrl = k
        /\ ~sampler.blobs[k].disposed
  /\ sampler.isDisposed =>
        /\ sampler.blobUrl = 0
        /\ \A k \in DOMAIN sampler.blobs : sampler.blobs[k].revoked = 1

\* two blob URLs were made, the first replaced by a later load and the second
\* released by dispose(), and a call was made after the dispose
C13_Witness ==
  /\ sampler.isDisposed
  /\ Len(sampler.blobs) >= 2
  /\ \A k \in DOMAIN sampler.blobs : sampler.blobs[k].revoked = 1
  /\ \E c \in DOMAIN sampler.calls :
        sampler.calls[c].phase = "rejected" /\ sampler.calls[c].src.kind = "file"
        /\ c = Len(sampler.calls) /\ c > 2


(***************************************************************************)
(* Properties of the widget's extraction, under Spec.                      *)
(***************************************************************************)
\* what an extraction has handed over so far
Delivered(x) == <<x.frames, x.cbProgress, x.cbComplete, x.cbError>>

\* C14: when the capture of one timestamp of the running extraction fails,
\* the extraction ends there with that error: the error callback is called
\* once, loading becomes false and the error state is set, and from then on
\* it captures no timestamp, reports no progress and never completes.
C14_CaptureFailureAborts ==
  [][\A e \in DOMAIN exts :
       /\ (~exts[e].superseded /\ (seekerror(e) \/ seekedDrawThrows(e)))
            => /\ exts'[e].phase = "done"
               /\ exts'[e].cbError = 1
               /\ exts'[e].cbComplete = 0
               /\ exts'[e].frames = exts[e].frames
               /\ exts'[e].cbProgress = exts[e].cbProgress
               /\ error' = (IF seekerror(e) THEN "capture" ELSE "draw")
               /\ loading' = FALSE
               /\ frames' = frames
       /\ (exts[e].phase = "done" /\ exts[e].cbError = 1)
            => Delivered(exts'[e]) = Delivered(exts[e])]_vars

\* an extraction has failed at its second timestamp, after one frame and one
\* progress report
C14_Witness ==
  \E e \in DOMAIN exts :
    /\ ~exts[e].superseded
    /\ exts[e].phase = "done"
    /\ exts[e].cbError = 1
    /\ exts[e].cbProgress = 1
    /\ Len(exts[e].frames) = 1
    /\ Len(exts[e].timePoints) > 1
    /\ error \in {"capture", "draw"}
    /\ ~loading

(***************************************************************************)
(* Properties of the pointer, under SpecPointer.                           *)
(***************************************************************************)
\* C15: when the currentTime prop is not passed, the current time that is
\* rendered (cursor, tooltip of a cursor drag) is the time of the most recent
\* time update, made by a drag or by setCurrentTime.
C15_UncontrolledTimeFollowsUpdates ==
  [][\A k \in DOMAIN emitted' :
       (~currentTimeProp.given /\ emitted'[k][1] = "timeChange")
       => currentTime' = emitted'[k][2]]_vars

PointerDowns == {"mousedown", "touchstart"}
PointerUps == {"mouseup", "touchend"}
Idle == dragTypeRef = "none" /\ ~isDragging /\ dragType = "none"

\* C17: while the timeline is disabled, a mousedown or a touchstart at any
\* position changes nothing: the interaction stays idle and no drag-started,
\* time-changed or range-changed is emitted.
C17_DisabledPointerDownIsNoOp ==
  [][(disabled /\ lastCall'.op \in PointerDowns)
       => /\ Idle /\ Idle'
          /\ emitted' = <<>>
          /\ UNCHANGED <<selectedRange, internalCurrentTime>>]_vars

\* a one-finger touchstart has reached handleStart of a disabled timeline
C17_Witness ==
  /\ disabled
  /\ lastCall = Call("touchstart", "disabled")
  /\ Idle
  /\ emitted = <<>>

\* C18: while the timeline is disabled, hovering over the canvas still sets
\* the cursor style of the area under the pointer, as it does when enabled.
C18_DisabledHoverSetsCursor ==
  [][(disabled /\ lastCall'.op = "hover")
       => cursorStyle' = cursorOf(lastCall'.hit)]_vars

\* C19: a mouseup or a touchend while a drag of some kind is on returns to
\* idle and emits exactly one drag-ended, of the kind of the drag-started
\* that began the drag; a mouseup or a touchend while idle emits nothing.
C19_PointerUpEndsDrag ==
  [][/\ lastCall'.op \in PointerUps
          => /\ Idle'
             /\ emitted' = IF dragTypeRef # "none"
                           THEN <<<<"dragEnd", dragTypeRef>>>> ELSE <<>>
     /\ \A k \in DOMAIN emitted' :
          emitted'[k][1] = "dragStart" => dragTypeRef' = emitted'[k][2]
     /\ dragTypeRef' # dragTypeRef
          => \/ lastCall'.op \in PointerUps
             \/ emitted'[1] = <<"dragStart", dragTypeRef'>>]_vars

\* a touchend has ended the drag of the start handle
C19_Witness ==
  /\ lastCall.op = "touchend"
  /\ emitted = <<<<"dragEnd", "start">>>>
  /\ Idle

\* C20: a touchcancel while a drag of some kind is on returns to idle and
\* emits drag-ended of that kind.
C20_TouchCancelEndsDrag ==
  [][(dragTypeRef # "none" /\ lastCall.op \in {"touchstart", "touchmove"}
        /\ lastCall'.op = "touchcancel")
       => /\ Idle'
          /\ emitted' = <<<<"dragEnd", dragTypeRef>>>>]_vars

(***************************************************************************)
(* Properties of the widget's selected range, under Spec.                  *)
(***************************************************************************)
\* C16: with neither selectedRange nor defaultSelectedRange passed, once the
\* range has been set to {0, duration} a later render of the host, also one
\* that passes a new onRangeChange function, neither sets the range again
\* nor emits range-changed again.
C16_RerenderKeepsRange ==
  [][lastCall'.op = "rerender"
       => /\ selectedRange' = selectedRange
          /\ emitted' = <<>>]_vars

\* C21: the window-scoped pointer-move and pointer-up listeners are
\* registered only while a drag is on: whenever the interaction is idle, and
\* after an unmount, window has none of them.
C21_WindowListenersOnlyWhileDragging ==
  (Idle \/ ~mounted) => windowListeners = {}

\* the positions of a move outside the canvas, and the nearest position
\* inside it
OutsideXs == {x \in TouchXs : x < 0 \/ x > width}
EdgeX(x) == Max(0, Min(width, x))

\* C22: while a drag is on, a mousemove or one-finger touchmove outside the
\* canvas is handled and gives the update that the move to the nearest
\* position inside gives, and a mouseup or touchend ends the drag wherever
\* the pointer is.
C22_DragSurvivesLeavingTheSurface ==
  [][/\ \A x \in OutsideXs :
          (dragTypeRef # "none" /\ (handleMouseMove(x) \/ handleTouchMove(1, x)))
          => /\ handleMove(lastCall'.op, EdgeX(x))
             /\ (dragTypeRef = "cursor" => emitted' # <<>>)
     /\ (dragTypeRef # "none" /\ lastCall'.op \in PointerUps) => Idle'
    ]_vars

\* a one-finger touchmove left of the canvas has taken the cursor to 0, and
\* the drag is still on
C22_Witness ==
  /\ dragTypeRef = "cursor"
  /\ lastCall.op = "touchmove"
  /\ emitted = <<<<"timeChange", 0>>>>
  /\ internalCurrentTime = 0

(***************************************************************************)
(* Properties of one TimelineRenderer, under SpecRenderer.                 *)
(***************************************************************************)
\* C23: when the image of one tile of a render call fails to load, every
\* other tile of the call whose image loads is drawn, and so are the
\* selection mask, the handles and the cursor of the call.
C23_FailedTileIsSkipped ==
  \A r \in DOMAIN renderer.renders :
    LET rc == renderer.renders[r]
    IN  (~renderer.disposed /\ rc.failed /\ rc.pending = {})
        => /\ rc.overlay
           /\ \A i \in DOMAIN rc.frames : rc.frames[i] \in rc.resolved => i \in rc.tiles

\* what the render calls have drawn
Drawn(rd) == [r \in DOMAIN rd.renders |-> <<rd.renders[r].tiles, rd.renders[r].overlay>>]

\* C24: after dispose() the image cache of a renderer is empty and stays
\* empty, and nothing more is drawn, also when a render call was awaiting
\* its images at the time.
C24_DisposedRendererIsInert ==
  [][renderer.disposed
       => /\ renderer'.frameImages = {}
          /\ Drawn(renderer') = Drawn(renderer)]_vars

(***************************************************************************)
(* Properties of the frames the widget's extractions deliver, under        *)
(* SpecExtract.                                                            *)
(***************************************************************************)
\* C25: the frame list that an extraction has delivered through
\* frames-extracted and setFrames has one frame for each of its generated
\* timestamps, frame i carrying timestamp i, in strictly ascending order of
\* time: a partial list is never delivered.
C25_DeliveredFramesAreComplete ==
  framesBy # 0 =>
    LET tp == exts[framesBy].timePoints
    IN  /\ Len(frames) = Len(tp)
        /\ \A i \in DOMAIN frames : frames[i].time = tp[i]
        /\ \A i, j \in DOMAIN frames : i < j => frames[i].time < frames[j].time

(***************************************************************************)
(* Properties of what a press and a move emit, under SpecPointer.          *)
(***************************************************************************)
DragKinds == {"start", "end", "cursor"}
PointerMoves == {"mousemove", "touchmove"}

\* C26: a mousedown or one-finger touchstart that starts a drag of some kind
\* emits drag-started(kind) and then one time-changed, with
\* selectedRange.start for kind start, selectedRange.end for kind end and
\* the clamped time of the pointer for kind cursor, and no range-changed.
C26_PressEmitsStartThenTime ==
  [][\A x \in HoverXs, y \in HoverYs :
       LET kind == detectHitArea(x, y)
       IN  (lastCall'.op \in PointerDowns /\ ~disabled /\ kind \in DragKinds
              /\ (handleMouseDown(x, y) \/ handleTouchStart(1, x, y)))
           => /\ dragTypeRef' = kind
              /\ emitted' =
                   << <<"dragStart", kind>>,
                      <<"timeChange",
                        IF kind = "start" THEN selectedRange.start
                        ELSE IF kind = "end" THEN selectedRange.end
                        ELSE pixelToTime(x)>> >>
              /\ selectedRange' = selectedRange]_vars

\* a mousedown on the end handle, right of the range's end, has put the time
\* on the range's end
C26_Witness ==
  /\ lastCall = Call("mousedown", "end")
  /\ emitted = <<<<"dragStart", "end">>, <<"timeChange", selectedRange.end>>>>
  /\ internalCurrentTime = 8000
  /\ dragTypeRef = "end"

\* C27: a move never changes the kind of the drag; a range emitted by a
\* start-handle drag keeps the range's end and one emitted by an end-handle
\* drag keeps its start; a cursor drag emits a time update on every
\* mousemove and one-finger touchmove, and never a range update.
C27_ClampInPlace ==
  [][/\ lastCall'.op \in PointerMoves
          => /\ UNCHANGED <<dragTypeRef, dragType, isDragging>>
             /\ \A k \in DOMAIN emitted' :
                  emitted'[k][1] = "rangeChange"
                  => \/ /\ dragTypeRef = "start"
                        /\ emitted'[k][3] = selectedRange.end
                        /\ emitted'[k][2] < emitted'[k][3]
                     \/ /\ dragTypeRef = "end"
                        /\ emitted'[k][2] = selectedRange.start
                        /\ emitted'[k][2] < emitted'[k][3]
     /\ \A x \in TouchXs :
          (dragTypeRef = "cursor" /\ (handleMouseMove(x) \/ handleTouchMove(1, x)))
          => emitted' = <<<<"timeChange", pixelToTime(x)>>>>]_vars

\* a cursor drag has moved to 3 s, and a start-handle drag has moved the
\* start to 3 s
C27_Witness ==
  /\ lastCall.op = "mousemove"
  /\ \/ dragTypeRef = "cursor" /\ emitted = <<<<"timeChange", 3000>>>>
     \/ dragTypeRef = "start"
          /\ emitted = <<<<"rangeChange", 3000, selectedRange.end>>,
                         <<"timeChange", 3000>>>>

(***************************************************************************)
(* Properties of the conversions, under SpecPure and SpecDrag.             *)
(***************************************************************************)
\* C28: for every pixel and every duration > 0, also one that is not a
\* multiple of 0.01 s, pixelToTime returns a multiple of 0.01 s that lies in
\* [0, duration].
C28_PixelToTimeInRange ==
  pOut.fn = "roundTrip" =>
    /\ pOut.time % 10 = 0
    /\ 0 <= pOut.time
    /\ pOut.time <= pIn.duration

\* the x of the playback cursor's centre and of the selection's edges in a
\* render call of the render effect, as fractions
cursorX == timeToPixel(currentTime, width, duration)
selectionStartX == timeToPixel(selectedRange.start, width, duration)
selectionEndX == timeToPixel(selectedRange.end, width, duration)

\* handleWidth <= px <= width - handleWidth
InTrack(px) ==
  /\ handleWidth * px[2] <= px[1]
  /\ px[1] <= (width - handleWidth) * px[2]

\* C29: the times passed to a render call are clamped to [0, duration]
\* before they are converted, so the cursor's centre and the selection's
\* edges are drawn at an x in [handleWidth, width - handleWidth].
C29_DrawnWithinTrack ==
  /\ InTrack(cursorX)
  /\ InTrack(selectionStartX)
  /\ InTrack(selectionEndX)

(***************************************************************************)
(* Properties of the progress of an extraction, under SpecExtract.         *)
(***************************************************************************)
\* C30: in an extraction over n > 0 timestamps that is not superseded, the
\* i-th capture is followed by the i-th progress call, with the value
\* (i / n) * 100, and frames-extracted is delivered with the n-th of them,
\* whose value is 100, and not before.
C30_ProgressThenComplete ==
  [][\A e \in DOMAIN exts :
       (~exts[e].superseded /\ seeked(e))
       => LET x == exts[e]
              n == Len(x.timePoints)
          IN  /\ x.cbProgress = x.i - 1
              /\ exts'[e].cbProgress = x.i
              /\ progress' = <<x.i * 100, n>>
              /\ x.cbComplete = 0
              /\ exts'[e].cbComplete = (IF x.i = n THEN 1 ELSE 0)
              /\ (x.i = n) = (exts'[e].phase = "done")
              /\ x.i = n => (frames' = exts'[e].frames /\ Len(frames') = n)]_vars

\* an extraction over two timestamps has completed after two progress calls
C30_Witness ==
  \E e \in DOMAIN exts :
    /\ ~exts[e].superseded
    /\ exts[e].phase = "done"
    /\ Len(exts[e].timePoints) = 2
    /\ exts[e].cbProgress = 2
    /\ exts[e].cbComplete = 1
    /\ exts[e].cbError = 0
    /\ progress = <<200, 2>>
    /\ Len(frames) = 2

(***************************************************************************)
(* Properties of the scale interval, under SpecPure.                       *)
(***************************************************************************)
\* the candidate tick intervals, in ms
Candidates == {500, 1000, 2000, 5000, 10000, 15000, 30000, 60000, 120000,
               300000, 600000}

\* C31: the tick interval chosen for a duration is the smallest candidate c
\* of {0.5, 1, 2, 5, 10, 15, 30, 60, 120, 300, 600} with duration / 7 <= c,
\* and 600 when no candidate satisfies it.
C31_SmallestFittingCandidate ==
  pOut.fn = "calculateScaleInterval" =>
    LET fits == {c \in Candidates : pIn.duration <= 7 * c}
    IN  /\ fits # {} =>
             /\ pOut.scale \in fits
             /\ \A c \in fits : pOut.scale <= c
        /\ fits = {} => pOut.scale = 600000

\* the interval of a duration of exactly 7 * 5 s has been computed: 5 s
C31_Witness ==
  /\ pOut.fn = "calculateScaleInterval"
  /\ pIn.duration = 35000
  /\ pOut.scale = 5000

(***************************************************************************)
(* Properties of concurrent render calls, under SpecRenderer.              *)
(***************************************************************************)
\* C32: render calls on one drawing surface take effect in issue order: no
\* draw operation of an earlier call happens after a later call has
\* cleared the surface, so the settled surface shows the cursor, the mask
\* and the handles of the last call only.
C32_RendersTakeEffectInOrder ==
  [][\A r \in DOMAIN renderer.renders :
       (renderer.renders[r].phase = "preload" /\ renderer'.renders[r].phase = "drawn")
       => r = Len(renderer.renders)]_vars

\* C39: a render call never starts resolving an image whose key is already
\* cached or already being resolved, so a renderer decodes each key at
\* most once.
C39_KeyResolvedAtMostOnce ==
  [][\A r \in DOMAIN renderer'.renders \ DOMAIN renderer.renders :
       /\ renderer'.renders[r].pending \cap renderer.frameImages = {}
       /\ \A q \in DOMAIN renderer.renders :
            renderer'.renders[r].pending \cap renderer.renders[q].pending = {}]_vars

(***************************************************************************)
(* The hit regions against the drawn handles, under SpecPointer.           *)
(***************************************************************************)
\* the pixel x lies in the rectangle rect of drawHandles
InRect(x, rect) ==
  /\ rect.x <= x * duration
  /\ x * duration <= rect.x + rect.width

\* C35: a point in the frame strip hit-tests to start exactly when its x
\* lies in the drawn start-handle rectangle [startX - handleWidth, startX],
\* and to end exactly when its x lies in the drawn end-handle rectangle
\* [endX, endX + handleWidth] and not in the start-handle rectangle.
C35_HitRegionsAreTheDrawnHandles ==
  [][(~disabled /\ lastCall'.op \in PointerDowns) =>
       \A x \in HoverXs, y \in HoverYs :
         (/\ scaleHeight <= y /\ y <= scaleHeight + frameHeight
          /\ (handleMouseDown(x, y) \/ handleTouchStart(1, x, y))) =>
           /\ lastCall'.hit = "start" <=> InRect(x, drawHandles.start)
           /\ lastCall'.hit = "end" <=>
                (InRect(x, drawHandles.end) /\ ~InRect(x, drawHandles.start))
    ]_vars

\* after the start handle was dragged to 3 s (x = 22), a pointer-down at
\* x = 22, now inside the rectangle [6, 22] drawn for it, has hit it
C35_Witness ==
  /\ ~disabled
  /\ selectedRange = [start |-> 3000, end |-> 8000]
  /\ lastCall = Call("mousedown", "start")
  /\ InRect(22, drawHandles.start)
  /\ ~InRect(12, drawHandles.end)
  /\ dragTypeRef = "start"

(***************************************************************************)
(* Properties of the drag notifications, under SpecPointer.                *)
(***************************************************************************)
\* C33: over any sequence of pointer events drag-started and drag-ended
\* alternate, beginning with drag-started: no drag-started is emitted while
\* the drag-started before it has not been followed by its drag-ended.
\* (dragTypeRef is set by the handler that emits drag-started and cleared
\* by the one that emits drag-ended.)
C33_StartAndEndAlternate ==
  [][(\E k \in DOMAIN emitted' : emitted'[k][1] = "dragStart")
       => dragTypeRef = "none"]_vars

\* C34: with duration and minDuration fixed and a selected range that
\* satisfies 0 <= start, start + minDuration <= end and end <= duration,
\* the range still satisfies the three conditions after any sequence of
\* start-handle, end-handle and cursor drag moves, each emitted range being
\* adopted as the selected range.
C34_DraggingKeepsRangeValid ==
  /\ 0 <= selectedRange.start
  /\ selectedRange.start + minDuration <= selectedRange.end
  /\ selectedRange.end <= duration

\* the end handle has been dragged left of the canvas and has stopped
\* minDuration after the start
C34_Witness ==
  /\ dragTypeRef = "end"
  /\ lastCall.op \in PointerMoves
  /\ selectedRange.end = selectedRange.start + minDuration
  /\ emitted # <<>>

(***************************************************************************)
(* Properties of the disabled timeline, under SpecDisable.                 *)
(***************************************************************************)
\* C37: whenever disabled is true, pointer events produce no time-changed
\* and no range-changed notification, also when disabled becomes true in
\* the middle of an active drag and pointer moves continue to arrive.
C37_DisabledEmitsNoChange ==
  [][(disabled /\ lastCall'.op \in PointerDowns \cup PointerMoves \cup PointerUps)
       => \A k \in DOMAIN emitted' :
            emitted'[k][1] \notin {"timeChange", "rangeChange"}]_vars

(***************************************************************************)
(* Termination of generateTimePoints, under SpecPureFair.                  *)
(***************************************************************************)
\* C38: for every duration and every frame interval the widget accepts,
\* generateTimePoints terminates and returns a strictly ascending list that
\* starts at 0 when duration > 0, whose points all lie in [0, duration),
\* and that is empty when duration <= 0.
C38_GenerateTimePointsReturns ==
  pIn.fn = "timePointsLoop" =>
    <>(/\ pOut.fn = "returned"
       /\ \A k \in DOMAIN pOut.points :
            /\ 0 <= pOut.points[k] /\ pOut.points[k] < pIn.duration
            /\ k > 1 => pOut.points[k - 1] < pOut.points[k]
       /\ pIn.duration > 0 => (pOut.points # <<>> /\ pOut.points[1] = 0)
       /\ pIn.duration <= 0 => pOut.points = <<>>)

(***************************************************************************)
(* Properties of the end of an extraction, under SpecExtract.              *)
(***************************************************************************)
\* C36: each started extraction gives the caller at most one terminal
\* notification, one frames-extracted or one error, never both and never
\* one of them twice; and loading is true from the start of the latest
\* extraction until that extraction's terminal notification.
C36_OneTerminalNotification ==
  /\ \A e \in DOMAIN exts : exts[e].cbComplete + exts[e].cbError <= 1
  /\ \A e \in DOMAIN exts :
       (e = Len(exts) /\ ~exts[e].superseded /\ exts[e].phase # "done")
       => loading

=============================================================================
